---- MODULE Spec2Model ----
(***************************************************************************)
(* Invoice data extraction: the pattern extractor, the reconciliation of   *)
(* the pattern-based and the model-based extraction, the pipeline          *)
(* orchestrator and the extract_invoice endpoint that stores its result.   *)
(*                                                                         *)
(* Python values are modelled as follows.                                  *)
(*   str    a sequence of one-character strings, tagged  Str(s)            *)
(*   None   PyNone                                                         *)
(*   float  a number that is not a confidence: Num(n)                      *)
(*   int    PyInt(n)                                                       *)
(*   list   PyList(items)                                                  *)
(*   dict   a function from keys (strings) to values; {} is <<>>           *)
(* A confidence c in [0,1] is the integer 100*c.  A quotient a/b is the    *)
(* pair [num |-> a, den |-> b], compared by cross-multiplication.          *)
(***************************************************************************)
EXTENDS Integers, Sequences, FiniteSets, TLC

VARIABLES
    pc,                 \* position of the single thread of control
    regex_extraction,   \* argument of _compare_extractions
    ai_extraction,      \* argument of _compare_extractions
    comparison,         \* local dict of _compare_extractions, its return value
    field_i,            \* index of the for loop over fields_to_compare
    caller,             \* who called _compare_extractions: "direct" or "pipeline"
    memo,               \* the first completed reconciliation: inputs and result
    PHASE1_AVAILABLE,   \* module flag: the OCR modules were imported
    AI_AVAILABLE,       \* module flag: the LayoutLM modules were imported
    ocr_result,         \* local of process_invoice_with_ai
    result,             \* local of process_invoice_with_ai, its return value
    db,                 \* committed invoice rows with their extractions and anomalies
    marked,             \* anomalies stored for the document of the current request
    response,           \* the last HTTP response of the API
    request,            \* the request the API received last
    data,               \* argument of _structure_extracted_data
    structured,         \* local dict of _structure_extracted_data, its return value
    norm_i,             \* index of the for loop over field_mappings
    directory,          \* the files of the directory batch_process_invoices lists
    file_i,             \* index of the for loop over the directory
    results,            \* local list of batch_process_invoices, its return value
    saved,              \* the result files written by save_pipeline_results
    json_files,         \* the parsed JSON files of the directory ingestion reads
    commit,             \* the --commit flag of the ingestion script
    json_i,             \* index of the for loop over the JSON files
    session,            \* rows added to the database session and not committed
    invoice_info,       \* local of ingest_single_file in its last call
    returned            \* the return values of the calls of ingest_single_file

compareVars == <<regex_extraction, ai_extraction, comparison, field_i, caller, memo>>
flagVars == <<PHASE1_AVAILABLE, AI_AVAILABLE>>
pipelineVars == <<ocr_result, result>>
apiVars == <<db, marked, response, request>>
normVars == <<data, structured, norm_i>>
batchVars == <<directory, file_i, results, saved>>
ingestVars == <<json_files, commit, json_i, session, invoice_info, returned>>

vars == <<pc, compareVars, flagVars, pipelineVars, apiVars, normVars, batchVars,
          ingestVars>>

-----------------------------------------------------------------------------
(* Python values *)

Str(s) == [t |-> "str", s |-> s, n |-> 0]
Num(k) == [t |-> "num", s |-> <<>>, n |-> k]
PyInt(k) == [t |-> "int", s |-> <<>>, n |-> k]
PyList(items) == [t |-> "list", s |-> items, n |-> 0]
PyNone == [t |-> "none", s |-> <<>>, n |-> 0]
EmptyStr == Str(<<>>)
EmptyDict == <<>>

\* the schema normalizer and the batch run are not in use
NormIdle == data = EmptyDict /\ structured = EmptyDict /\ norm_i = 0
NoDirectory == [exists |-> FALSE, files |-> <<>>]
BatchIdle == directory = NoDirectory /\ file_i = 0 /\ results = <<>> /\ saved = <<>>
IngestIdle ==
    /\ json_files = <<>>
    /\ commit = FALSE
    /\ json_i = 0
    /\ session = <<>>
    /\ invoice_info = <<>>
    /\ returned = <<>>

\* bool(v): None, "", [] and 0 are falsy
Truthy(v) ==
    CASE v.t \in {"str", "list"} -> Len(v.s) > 0
      [] v.t \in {"num", "int"} -> v.n # 0
      [] OTHER -> FALSE

\* dict.get(key, default)
DictGet(d, key, default) == IF key \in DOMAIN d THEN d[key] ELSE default

UpperLetters == <<"A","B","C","D","E","F","G","H","I","J","K","L","M",
                  "N","O","P","Q","R","S","T","U","V","W","X","Y","Z">>
LowerLetters == <<"a","b","c","d","e","f","g","h","i","j","k","l","m",
                  "n","o","p","q","r","s","t","u","v","w","x","y","z">>
Digits == {"0","1","2","3","4","5","6","7","8","9"}
Whitespace == {" ", "\n", "\t"}

Range(f) == {f[i] : i \in DOMAIN f}

LowerChar(c) ==
    IF c \in Range(UpperLetters)
    THEN LowerLetters[CHOOSE i \in DOMAIN UpperLetters : UpperLetters[i] = c]
    ELSE c

UpperChar(c) ==
    IF c \in Range(LowerLetters)
    THEN UpperLetters[CHOOSE i \in DOMAIN LowerLetters : LowerLetters[i] = c]
    ELSE c

\* str.lower(), str.upper()
Lower(s) == [i \in 1..Len(s) |-> LowerChar(s[i])]
Upper(s) == [i \in 1..Len(s) |-> UpperChar(s[i])]

\* str.strip(): leading and trailing whitespace removed
Strip(s) ==
    LET keep == {i \in 1..Len(s) : s[i] \notin Whitespace}
    IN  IF keep = {} THEN <<>>
        ELSE LET lo == CHOOSE i \in keep : \A j \in keep : i <= j
                 hi == CHOOSE i \in keep : \A j \in keep : j <= i
             IN  SubSeq(s, lo, hi)

-----------------------------------------------------------------------------
(* _basic_regex_extraction: the pattern extractor *)

Letters == Range(UpperLetters) \cup Range(LowerLetters)
\* [A-Z0-9\-] under re.IGNORECASE
IdChars == Letters \cup Digits \cup {"-"}
\* \w
WordChars == Letters \cup Digits \cup {"_"}
\* [:\s]
ColonOrSpace == {":"} \cup Whitespace
\* [/-]
DateSeparators == {"/", "-"}
\* [\$...]: of the currency signs of the class, the dollar sign is in the alphabet
CurrencySigns == {"$"}
\* [\d,]
DigitOrComma == Digits \cup {","}

MinOf(S) == CHOOSE x \in S : \A y \in S : x <= y

\* the literal lit stands in s at position p
HasAt(s, p, lit) ==
    /\ p >= 1
    /\ p + Len(lit) - 1 <= Len(s)
    /\ \A k \in 1..Len(lit) : s[p + k - 1] = lit[k]

\* `lit in s`
Contains(s, lit) == \E p \in 1..Len(s) : HasAt(s, p, lit)

\* the end of the longest run of characters of C that starts at p: a greedy
\* C*, which never gives characters back when what follows is disjoint from C
SpanIn(s, p, C) ==
    MinOf({q \in p..(Len(s) + 1) : q > Len(s) \/ s[q] \notin C})

\* the character of s at p is in C
CharIn(s, p, C) == p >= 1 /\ p <= Len(s) /\ s[p] \in C

\* n characters of C stand at p
RunOf(s, p, n, C) == \A k \in 0..(n - 1) : CharIn(s, p + k, C)

NoMatch == [ok |-> FALSE, from |-> 0, to |-> 0]
Group(from, to) == [ok |-> TRUE, from |-> from, to |-> to]

\* re.search: of the matches of a pattern at each position of the text, the
\* one at the leftmost position where the pattern matches
Search(matches) ==
    LET ps == {p \in DOMAIN matches : matches[p].ok}
    IN  IF ps = {} THEN NoMatch ELSE matches[MinOf(ps)]

\* lit\s*#?\s*([A-Z0-9\-]+)
InvMatchAt(s, lit, p) ==
    LET q1 == SpanIn(s, p + Len(lit), Whitespace)
        q2 == IF CharIn(s, q1, {"#"}) THEN q1 + 1 ELSE q1
        q3 == SpanIn(s, q2, Whitespace)
        q4 == SpanIn(s, q3, IdChars)
    IN  IF HasAt(s, p, lit) /\ q4 > q3 THEN Group(q3, q4 - 1) ELSE NoMatch

\* (\d{1,2}[/-]\d{1,2}[/-]\d{4}) at q
DayMonthYearAt(s, q) ==
    LET a == IF RunOf(s, q, 2, Digits) THEN 2 ELSE 1
        r == q + a + 1
        b == IF RunOf(s, r, 2, Digits) THEN 2 ELSE 1
        y == r + b + 1
    IN  IF /\ RunOf(s, q, a, Digits) /\ CharIn(s, q + a, DateSeparators)
           /\ RunOf(s, r, b, Digits) /\ CharIn(s, r + b, DateSeparators)
           /\ RunOf(s, y, 4, Digits)
        THEN Group(q, y + 3) ELSE NoMatch

\* date[:\s]*(\d{1,2}[/-]\d{1,2}[/-]\d{4})
DateMatch1At(s, p) ==
    IF HasAt(s, p, <<"d","a","t","e">>)
    THEN DayMonthYearAt(s, SpanIn(s, p + 4, ColonOrSpace))
    ELSE NoMatch

\* (\d{4}[/-]\d{1,2}[/-]\d{1,2})
DateMatch2At(s, p) ==
    LET r == p + 5
        b == IF RunOf(s, r, 2, Digits) THEN 2 ELSE 1
        d == r + b + 1
        c == IF RunOf(s, d, 2, Digits) THEN 2 ELSE 1
    IN  IF /\ RunOf(s, p, 4, Digits) /\ CharIn(s, p + 4, DateSeparators)
           /\ RunOf(s, r, b, Digits) /\ CharIn(s, r + b, DateSeparators)
           /\ RunOf(s, d, c, Digits)
        THEN Group(p, d + c - 1) ELSE NoMatch

\* date[:\s]*(\w{3}\s+\d{1,2},?\s+\d{4})
DateMatch3At(s, p) ==
    LET q == SpanIn(s, p + 4, ColonOrSpace)
        w == SpanIn(s, q + 3, Whitespace)
        a == IF RunOf(s, w, 2, Digits) THEN 2 ELSE 1
        k == IF CharIn(s, w + a, {","}) THEN w + a + 1 ELSE w + a
        y == SpanIn(s, k, Whitespace)
    IN  IF /\ HasAt(s, p, <<"d","a","t","e">>)
           /\ RunOf(s, q, 3, WordChars)
           /\ w > q + 3
           /\ RunOf(s, w, a, Digits)
           /\ y > k
           /\ RunOf(s, y, 4, Digits)
        THEN Group(q, y + 3) ELSE NoMatch

\* [:\s]*[\$...]?\s*([\d,]+\.?\d*) at q
AmountAt(s, q) ==
    LET q1 == SpanIn(s, q, ColonOrSpace)
        q2 == IF CharIn(s, q1, CurrencySigns) THEN q1 + 1 ELSE q1
        q3 == SpanIn(s, q2, Whitespace)
        q4 == SpanIn(s, q3, DigitOrComma)
        q5 == IF CharIn(s, q4, {"."}) THEN q4 + 1 ELSE q4
        q6 == SpanIn(s, q5, Digits)
    IN  IF q4 > q3 THEN Group(q3, q6 - 1) ELSE NoMatch

\* lit[:\s]*[\$...]?\s*([\d,]+\.?\d*)
TotalMatchAt(s, lit, p) ==
    IF HasAt(s, p, lit) THEN AmountAt(s, p + Len(lit)) ELSE NoMatch

\* grand\s+total[:\s]*[\$...]?\s*([\d,]+\.?\d*)
GrandTotalMatchAt(s, p) ==
    LET q == SpanIn(s, p + 5, Whitespace)
    IN  IF /\ HasAt(s, p, <<"g","r","a","n","d">>)
           /\ q > p + 5
           /\ HasAt(s, q, <<"t","o","t","a","l">>)
        THEN AmountAt(s, q + 5) ELSE NoMatch

\* the three pattern lists, each pattern as its search over the text
InvSearches(s) ==
    << Search([p \in 1..Len(s) |-> InvMatchAt(s, <<"i","n","v","o","i","c","e">>, p)]),
       Search([p \in 1..Len(s) |-> InvMatchAt(s, <<"i","n","v">>, p)]),
       Search([p \in 1..Len(s) |-> InvMatchAt(s, <<"b","i","l","l">>, p)]) >>

DateSearches(s) ==
    << Search([p \in 1..Len(s) |-> DateMatch1At(s, p)]),
       Search([p \in 1..Len(s) |-> DateMatch2At(s, p)]),
       Search([p \in 1..Len(s) |-> DateMatch3At(s, p)]) >>

TotalSearches(s) ==
    << Search([p \in 1..Len(s) |-> TotalMatchAt(s, <<"t","o","t","a","l">>, p)]),
       Search([p \in 1..Len(s) |-> TotalMatchAt(s, <<"a","m","o","u","n","t">>, p)]),
       Search([p \in 1..Len(s) |-> GrandTotalMatchAt(s, p)]) >>

\* (mutation: the loop has no break, the last pattern that matches wins)
FirstMatch_LastWins(searches) ==
    LET hits == {k \in DOMAIN searches : searches[k].ok}
    IN  IF hits = {} THEN NoMatch
        ELSE searches[CHOOSE k \in hits : \A j \in hits : j <= k]

\* `for pattern in patterns: match = re.search(...); if match: ...; break`:
\* the group of the first pattern of the list that matches, or no match
FirstMatch(searches) ==
    LET hits == {k \in DOMAIN searches : searches[k].ok}
    IN  IF hits = {} THEN NoMatch ELSE searches[MinOf(hits)]

GroupText(s, m) == SubSeq(s, m.from, m.to)

\* str.replace(',', '')
RemoveCommas(s) ==
    LET keep == {i \in 1..Len(s) : s[i] # ","}
        nth(k) == CHOOSE i \in keep : Cardinality({j \in keep : j < i}) = k - 1
    IN  [k \in 1..Cardinality(keep) |-> s[nth(k)]]

\* str.split('\n')
SplitLines(s) ==
    LET nl == {i \in 1..Len(s) : s[i] = "\n"}
        \* the position of the k-th newline; 0 and Len(s)+1 bound the text
        brk(k) == IF k = 0 THEN 0
                  ELSE IF k > Cardinality(nl) THEN Len(s) + 1
                  ELSE CHOOSE i \in nl : Cardinality({j \in nl : j < i}) = k - 1
    IN  [k \in 1..(Cardinality(nl) + 1) |-> SubSeq(s, brk(k - 1) + 1, brk(k) - 1)]

VendorKeywords ==
    { <<"i","n","v","o","i","c","e">>, <<"d","a","t","e">>, <<"t","o","t","a","l">>,
      <<"a","m","o","u","n","t">>, <<"b","i","l","l">> }
CompanyIndicators ==
    { <<"L","T","D">>, <<"I","N","C">>, <<"C","O","R","P">>, <<"C","O",".">>,
      <<"L","L","C">> }

\* the body of `for line in lines[:5]`: the stripped line is a vendor
IsVendorLine(line) ==
    /\ Len(line) > 3
    /\ ~ \E keyword \in VendorKeywords : Contains(Lower(line), keyword)
    /\ \E indicator \in CompanyIndicators : Contains(Upper(line), indicator)

\* the first of the first five lines, stripped, that is a vendor line
VendorLine(ocr_text) ==
    LET lines == SplitLines(ocr_text)
        hits == {k \in DOMAIN lines : k <= 5 /\ IsVendorLine(Strip(lines[k]))}
    IN  IF hits = {} THEN [ok |-> FALSE, line |-> <<>>]
        ELSE [ok |-> TRUE, line |-> Strip(lines[MinOf(hits)])]

FieldValue(v, c) == [value |-> v, confidence |-> c]

\* (mutation: the commas of the amount are kept)
TotalValue_KeepsCommas(group) == group

\* amount = match.group(1).replace(',', '')
TotalValue(group) == RemoveCommas(group)

_basic_regex_extraction(ocr_text) ==
    LET text_lower == Lower(ocr_text)
        inv == FirstMatch(InvSearches(text_lower))
        date == FirstMatch(DateSearches(text_lower))
        total == FirstMatch(TotalSearches(text_lower))
        vendor == VendorLine(ocr_text)
    IN  IF ocr_text = <<>>
        THEN [f \in {"invoice_no", "vendor", "date", "total"} |-> FieldValue(EmptyStr, 0)]
        ELSE [invoice_no |-> IF inv.ok
                   THEN FieldValue(Str(Upper(GroupText(text_lower, inv))), 80)
                   ELSE FieldValue(EmptyStr, 0),
              vendor |-> IF vendor.ok
                   THEN FieldValue(Str(vendor.line), 60)
                   ELSE FieldValue(EmptyStr, 0),
              date |-> IF date.ok
                   THEN FieldValue(Str(GroupText(text_lower, date)), 70)
                   ELSE FieldValue(EmptyStr, 0),
              total |-> IF total.ok
                   THEN FieldValue(Str(TotalValue(GroupText(text_lower, total))), 75)
                   ELSE FieldValue(EmptyStr, 0)]

\* recognized texts the OCR engines return
InvoiceText ==
    <<"I","n","v","o","i","c","e"," ","#","I","N","V","-","2","0","2","4",
      "-","0","0","1","\n","A","C","M","E"," ","C","O","R","P"," ","L","T",
      "D","\n","D","a","t","e",":"," ","2","0","2","4","-","0","1","-","1",
      "5","\n","T","o","t","a","l",":"," ","$","1",",","2","3","4",".","5",
      "6">>

BillText ==
    <<"B","i","l","l"," ","7","7","\n","G","l","o","b","e","x"," ","I","n",
      "c","\n","D","a","t","e",":"," ","0","1","/","0","2","/","2","0","2",
      "4","\n","A","m","o","u","n","t",":"," ","9","9">>

InvText ==
    <<"I","n","v","#"," ","A","-","9","\n","D","a","t","e",":"," ","J","a",
      "n"," ","5",","," ","2","0","2","4","\n","G","r","a","n","d"," ","T",
      "o","t","a","l",":"," ","1",",","0","0","0",".">>

PlainText ==
    <<"h","e","l","l","o"," ","w","o","r","l","d">>

OcrTexts == {<<>>, InvoiceText, BillText, InvText, PlainText}

-----------------------------------------------------------------------------
(* _compare_extractions *)

fields_to_compare == <<"invoice_no", "vendor", "date", "total">>

\* regex_extraction.get(field, {}).get("value", "") and its three siblings
regex_value_of(regex, field) == DictGet(DictGet(regex, field, EmptyDict), "value", EmptyStr)
\* (mutation: a missing confidence defaults to 0.8, as in the schema normalizer)
regex_conf_of_Default80(regex, field) ==
    DictGet(DictGet(regex, field, EmptyDict), "confidence", 80)
regex_conf_of(regex, field) == DictGet(DictGet(regex, field, EmptyDict), "confidence", 0)
AiSchema(ai) == DictGet(ai, "schema", EmptyDict)
ai_value_of(ai, field) == DictGet(DictGet(AiSchema(ai), field, EmptyDict), "value", EmptyStr)
ai_conf_of(ai, field) == DictGet(DictGet(AiSchema(ai), field, EmptyDict), "confidence", 0)

both_present_of(regex_value, ai_value) == Truthy(regex_value) /\ Truthy(ai_value)

\* regex_value.lower() raises AttributeError on a value that is not a str;
\* the expression is evaluated only when both values are truthy
MatchRaises(regex_value, ai_value) ==
    both_present_of(regex_value, ai_value)
        /\ (regex_value.t # "str" \/ ai_value.t # "str")

NormalizedEqual(a, b) == Strip(Lower(a)) = Strip(Lower(b))

\* (mutation: the both_present guard of the comparison is dropped)
values_match_of_Unguarded(regex_value, ai_value) ==
    NormalizedEqual(regex_value.s, ai_value.s)

values_match_of(regex_value, ai_value) ==
    IF both_present_of(regex_value, ai_value)
    THEN NormalizedEqual(regex_value.s, ai_value.s)
    ELSE FALSE

\* (mutation: on equal confidences the pattern value is tried first)
Recommend_TiePrefersRegex(regex_value, ai_value, regex_conf, ai_conf, both_present, values_match) ==
    IF both_present /\ values_match
        THEN [value |-> regex_value, method |-> "either"]
    ELSE IF ai_conf > regex_conf
        THEN [value |-> ai_value, method |-> "ai"]
    ELSE IF regex_conf > ai_conf
        THEN [value |-> regex_value, method |-> "regex"]
    ELSE IF Truthy(regex_value)
        THEN [value |-> regex_value, method |-> "regex"]
    ELSE IF Truthy(ai_value)
        THEN [value |-> ai_value, method |-> "ai"]
    ELSE [value |-> EmptyStr, method |-> ""]

\* (mutation: a matching field recommends the normalized common value)
Recommend_Normalized(regex_value, ai_value, regex_conf, ai_conf, both_present, values_match) ==
    IF both_present /\ values_match
        THEN [value |-> Str(Strip(Lower(regex_value.s))), method |-> "either"]
    ELSE IF ai_conf > regex_conf
        THEN [value |-> ai_value, method |-> "ai"]
    ELSE IF regex_conf > ai_conf
        THEN [value |-> regex_value, method |-> "regex"]
    ELSE IF Truthy(ai_value)
        THEN [value |-> ai_value, method |-> "ai"]
    ELSE IF Truthy(regex_value)
        THEN [value |-> regex_value, method |-> "regex"]
    ELSE [value |-> EmptyStr, method |-> ""]

\* (mutation: the confidences are compared before the match is looked at)
Recommend_ConfidenceFirst(regex_value, ai_value, regex_conf, ai_conf, both_present, values_match) ==
    IF ai_conf > regex_conf
        THEN [value |-> ai_value, method |-> "ai"]
    ELSE IF regex_conf > ai_conf
        THEN [value |-> regex_value, method |-> "regex"]
    ELSE IF both_present /\ values_match
        THEN [value |-> regex_value, method |-> "either"]
    ELSE IF Truthy(ai_value)
        THEN [value |-> ai_value, method |-> "ai"]
    ELSE IF Truthy(regex_value)
        THEN [value |-> regex_value, method |-> "regex"]
    ELSE [value |-> EmptyStr, method |-> ""]

\* (mutation: a value that is present is preferred before the confidences
\* are compared)
Recommend_PresenceFirst(regex_value, ai_value, regex_conf, ai_conf, both_present, values_match) ==
    IF both_present /\ values_match
        THEN [value |-> regex_value, method |-> "either"]
    ELSE IF Truthy(ai_value)
        THEN [value |-> ai_value, method |-> "ai"]
    ELSE IF Truthy(regex_value)
        THEN [value |-> regex_value, method |-> "regex"]
    ELSE IF ai_conf > regex_conf
        THEN [value |-> ai_value, method |-> "ai"]
    ELSE IF regex_conf > ai_conf
        THEN [value |-> regex_value, method |-> "regex"]
    ELSE [value |-> EmptyStr, method |-> ""]

\* the if/elif chain that fills recommended_value and recommended_method
Recommend(regex_value, ai_value, regex_conf, ai_conf, both_present, values_match) ==
    IF both_present /\ values_match
        THEN [value |-> regex_value, method |-> "either"]
    ELSE IF ai_conf > regex_conf
        THEN [value |-> ai_value, method |-> "ai"]
    ELSE IF regex_conf > ai_conf
        THEN [value |-> regex_value, method |-> "regex"]
    ELSE IF Truthy(ai_value)
        THEN [value |-> ai_value, method |-> "ai"]
    ELSE IF Truthy(regex_value)
        THEN [value |-> regex_value, method |-> "regex"]
    ELSE [value |-> EmptyStr, method |-> ""]

\* one pass of the loop body: the field_comparison dict of one field
FieldComparison(regex, ai, field) ==
    LET regex_value == regex_value_of(regex, field)
        regex_conf == regex_conf_of(regex, field)
        ai_value == ai_value_of(ai, field)
        ai_conf == ai_conf_of(ai, field)
        both_present == both_present_of(regex_value, ai_value)
        values_match == values_match_of(regex_value, ai_value)
        rec == Recommend(regex_value, ai_value, regex_conf, ai_conf,
                         both_present, values_match)
    IN  [regex_value |-> regex_value,
         ai_value |-> ai_value,
         regex_confidence |-> regex_conf,
         ai_confidence |-> ai_conf,
         both_present |-> both_present,
         values_match |-> values_match,
         recommended_value |-> rec.value,
         recommended_method |-> rec.method]

\* (mutation: the guard against a zero divisor is dropped)
Quotient_Unguarded(a, b) == [num |-> a, den |-> b]

\* a / b if b > 0 else 0
Quotient(a, b) == IF b > 0 THEN [num |-> a, den |-> b] ELSE [num |-> 0, den |-> 1]
\* q > n/d and q < n/d for positive denominators
QGreater(q, n, d) == q.num * d > n * q.den
QLess(q, n, d) == q.num * d < n * q.den

OverallMetrics(field_comparisons) ==
    LET total_fields == Len(fields_to_compare)
        fields_with_data == Cardinality({i \in DOMAIN fields_to_compare :
            Truthy(field_comparisons[fields_to_compare[i]].recommended_value)})
        matching_fields == Cardinality({i \in DOMAIN fields_to_compare :
            field_comparisons[fields_to_compare[i]].values_match})
    IN  [total_fields |-> total_fields,
         fields_with_data |-> fields_with_data,
         matching_fields |-> matching_fields,
         data_completeness |-> Quotient(fields_with_data, total_fields),
         agreement_rate |-> Quotient(matching_fields, fields_with_data)]

HighAgreement == "High agreement between methods - use AI for better accuracy"
LowCompleteness == "Low data completeness - consider improving OCR quality"
ModerateAgreement == "Moderate agreement - use confidence-weighted combination"

\* (mutation: the completeness test comes before the agreement test)
Recommendation_CompletenessFirst(overall_metrics) ==
    IF QLess(overall_metrics.data_completeness, 5, 10) THEN LowCompleteness
    ELSE IF QGreater(overall_metrics.agreement_rate, 8, 10) THEN HighAgreement
    ELSE ModerateAgreement

\* the if/elif/else that appends one recommendation
Recommendation(overall_metrics) ==
    IF QGreater(overall_metrics.agreement_rate, 8, 10) THEN HighAgreement
    ELSE IF QLess(overall_metrics.data_completeness, 5, 10) THEN LowCompleteness
    ELSE ModerateAgreement

\* (mutation: the dict of the previous call is reused instead of a fresh one)
NewComparison_Reused(old) ==
    IF old = EmptyDict
    THEN [field_comparisons |-> EmptyDict,
          overall_metrics |-> EmptyDict,
          recommendations |-> <<>>]
    ELSE old

\* comparison = {"field_comparisons": {}, "overall_metrics": {}, "recommendations": []}
NewComparison(old) ==
    [field_comparisons |-> EmptyDict,
     overall_metrics |-> EmptyDict,
     recommendations |-> <<>>]

\* entry of _compare_extractions: the fresh local dict
CompareBegin ==
    /\ pc = "compare"
    /\ comparison' = NewComparison(comparison)
    /\ field_i' = 1
    /\ pc' = "compare_loop"
    /\ UNCHANGED <<regex_extraction, ai_extraction, caller, memo>>
    /\ UNCHANGED <<flagVars, pipelineVars, apiVars>>
    /\ UNCHANGED <<normVars, batchVars>>
    /\ UNCHANGED ingestVars

\* one iteration of `for field in fields_to_compare`; the AttributeError of
\* .lower() leaves the function
CompareField ==
    /\ pc = "compare_loop"
    /\ field_i <= Len(fields_to_compare)
    /\ LET field == fields_to_compare[field_i]
       IN  IF MatchRaises(regex_value_of(regex_extraction, field),
                          ai_value_of(ai_extraction, field))
           THEN /\ pc' = "compare_raised"
                /\ UNCHANGED <<comparison, field_i>>
           ELSE /\ comparison' = [comparison EXCEPT !.field_comparisons =
                       [f \in DOMAIN @ \cup {field} |->
                           IF f = field
                           THEN FieldComparison(regex_extraction, ai_extraction, field)
                           ELSE @[f]]]
                /\ field_i' = field_i + 1
                /\ pc' = pc
    /\ UNCHANGED <<regex_extraction, ai_extraction, caller, memo>>
    /\ UNCHANGED <<flagVars, pipelineVars, apiVars>>
    /\ UNCHANGED <<normVars, batchVars>>
    /\ UNCHANGED ingestVars

\* after the loop: overall metrics, the recommendation, return comparison
CompareMetrics ==
    /\ pc = "compare_loop"
    /\ field_i > Len(fields_to_compare)
    /\ LET overall_metrics == OverallMetrics(comparison.field_comparisons)
       IN  comparison' = [comparison EXCEPT
               !.overall_metrics = overall_metrics,
               !.recommendations = Append(@, Recommendation(overall_metrics))]
    /\ pc' = "compare_return"
    /\ UNCHANGED <<regex_extraction, ai_extraction, field_i, caller, memo>>
    /\ UNCHANGED <<flagVars, pipelineVars, apiVars>>
    /\ UNCHANGED <<normVars, batchVars>>
    /\ UNCHANGED ingestVars

-----------------------------------------------------------------------------
(* Reconciliation called directly on a bounded family of input mappings *)

\* how many nonzero confidence levels the inputs use: 0.8, 0.6, ...
NumConfidences == 1

Confidences == {0} \cup {100 - 20 * k : k \in 1..NumConfidences}

ACME == <<"A","C","M","E">>
AcmePadded == <<" ","a","c","m","e"," ">>
AcmeCorp == <<"A","C","M","E"," ","C","O","R","P">>

\* values the pattern side reports (always text): nothing, a name, the same
\* name in another case and padded, and a different name
RegexValues == {EmptyStr, Str(ACME), Str(AcmePadded), Str(AcmeCorp)}
\* the model side may also report null
AiValues == RegexValues \cup {PyNone}

FieldNames == Range(fields_to_compare)

\* a mapping gives one FieldValue to the fields of any subset of the field
\* list and lacks the others
MappingsOver(values) ==
    {[f \in D |-> [value |-> v, confidence |-> c]] :
        D \in SUBSET FieldNames, v \in values, c \in Confidences}

RegexInputs == MappingsOver(RegexValues)
AiInputs == {[schema |-> m] : m \in MappingsOver(AiValues)} \cup {EmptyDict}

InitCompare ==
    /\ pc = "compare"
    /\ regex_extraction \in RegexInputs
    /\ ai_extraction \in AiInputs
    /\ comparison = EmptyDict
    /\ field_i = 0
    /\ caller = "direct"
    /\ memo = EmptyDict
    /\ PHASE1_AVAILABLE = TRUE
    /\ AI_AVAILABLE = TRUE
    /\ ocr_result = EmptyDict
    /\ result = EmptyDict
    /\ db = <<>>
    /\ marked = <<>>
    /\ response = EmptyDict
    /\ request = EmptyDict
    /\ NormIdle
    /\ BatchIdle
    /\ IngestIdle

\* the direct caller receives the returned dict, and keeps the inputs and
\* the result of its first call
CompareReturn ==
    /\ pc = "compare_return"
    /\ caller = "direct"
    /\ pc' = "done"
    /\ memo' = IF memo = EmptyDict
               THEN [regex |-> regex_extraction, ai |-> ai_extraction,
                     result |-> comparison]
               ELSE memo
    /\ UNCHANGED <<regex_extraction, ai_extraction, comparison, field_i, caller>>
    /\ UNCHANGED <<flagVars, pipelineVars, apiVars>>
    /\ UNCHANGED <<normVars, batchVars>>
    /\ UNCHANGED ingestVars

NextCompare == CompareBegin \/ CompareField \/ CompareMetrics \/ CompareReturn

SpecCompare == InitCompare /\ [][NextCompare]_vars

-----------------------------------------------------------------------------
(* Reconciliation called directly on mappings whose values are any scalar *)

\* text, numbers as the schema normalizer produces them for the amounts, and
\* on the model side null
ScalarValues == {EmptyStr, Str(ACME), Num(0), Num(1234)}

ScalarRegexInputs == MappingsOver(ScalarValues)
ScalarAiInputs == {[schema |-> m] : m \in MappingsOver(ScalarValues \cup {PyNone})}

InitScalars ==
    /\ pc = "compare"
    /\ regex_extraction \in ScalarRegexInputs
    /\ ai_extraction \in ScalarAiInputs
    /\ comparison = EmptyDict
    /\ field_i = 0
    /\ caller = "direct"
    /\ memo = EmptyDict
    /\ PHASE1_AVAILABLE = TRUE
    /\ AI_AVAILABLE = TRUE
    /\ ocr_result = EmptyDict
    /\ result = EmptyDict
    /\ db = <<>>
    /\ marked = <<>>
    /\ response = EmptyDict
    /\ request = EmptyDict
    /\ NormIdle
    /\ BatchIdle
    /\ IngestIdle

SpecScalars == InitScalars /\ [][NextCompare]_vars

-----------------------------------------------------------------------------
(* Reconciliation called again and again, on mappings that give every field *)

FullMappingsOver(values) ==
    {[f \in FieldNames |-> [value |-> v, confidence |-> c]] :
        v \in values, c \in Confidences}

RepeatRegexInputs == FullMappingsOver({Str(ACME), Str(AcmeCorp)})
RepeatAiInputs == {[schema |-> m] : m \in FullMappingsOver(AiValues)} \cup {EmptyDict}

InitRepeat ==
    /\ pc = "idle"
    /\ regex_extraction = EmptyDict
    /\ ai_extraction = EmptyDict
    /\ comparison = EmptyDict
    /\ field_i = 0
    /\ caller = "direct"
    /\ memo = EmptyDict
    /\ PHASE1_AVAILABLE = TRUE
    /\ AI_AVAILABLE = TRUE
    /\ ocr_result = EmptyDict
    /\ result = EmptyDict
    /\ db = <<>>
    /\ marked = <<>>
    /\ response = EmptyDict
    /\ request = EmptyDict
    /\ NormIdle
    /\ BatchIdle
    /\ IngestIdle

\* a caller invokes _compare_extractions(regex, ai)
CallCompare ==
    /\ pc \in {"idle", "done"}
    /\ \E regex \in RepeatRegexInputs, ai \in RepeatAiInputs :
        /\ regex_extraction' = regex
        /\ ai_extraction' = ai
    /\ pc' = "compare"
    /\ UNCHANGED <<comparison, field_i, caller, memo>>
    /\ UNCHANGED <<flagVars, pipelineVars, apiVars>>
    /\ UNCHANGED <<normVars, batchVars>>
    /\ UNCHANGED ingestVars

NextRepeat ==
    CallCompare \/ CompareBegin \/ CompareField \/ CompareMetrics \/ CompareReturn

SpecRepeat == InitRepeat /\ [][NextRepeat]_vars

-----------------------------------------------------------------------------
(* process_invoice_with_ai, called by the extract_invoice endpoint *)

\* how many invoice rows the database holds before requests stop
MaxInvoices == 1

Phase1UnavailableText ==
    <<"P","h","a","s","e"," ","1"," ","m","o","d","u","l","e","s"," ","n",
      "o","t"," ","a","v","a","i","l","a","b","l","e">>
OcrFailedText == <<"O","C","R"," ","f","a","i","l","e","d",":"," ">>

\* _run_phase1_ocr without the Phase 1 modules
Phase1Unavailable ==
    [ocr_text |-> Phase1UnavailableText,
     regex_extraction |-> EmptyDict,
     error |-> "Phase 1 OCR pipeline not found"]

\* _run_phase1_ocr when preprocessing or an OCR engine raises
OcrFailed ==
    [ocr_text |-> OcrFailedText,
     regex_extraction |-> EmptyDict,
     error |-> "OCR raised"]

\* _run_phase1_ocr on the texts of the two engines: Tesseract's text is
\* preferred, the patterns run over the chosen text
OcrSucceeded(tesseract_text, easyocr_text) ==
    LET ocr_text == IF tesseract_text # <<>> THEN tesseract_text ELSE easyocr_text
    IN  [ocr_text |-> ocr_text,
         regex_extraction |-> _basic_regex_extraction(ocr_text)]

\* the three error returns of _run_ai_extraction
AiFailure(error) == [error |-> error, schema |-> EmptyDict]
\* the normal return of _run_ai_extraction
AiSuccess(validated_schema) == [schema |-> validated_schema]

AiErrors == {"AI modules not available", "inference error", "AI extraction failed"}

\* schemas the LayoutLM schema mapper returns.  Its field names are either
\* those the reconciliation looks up or those the endpoint stores.
AgreeingSchema ==
    [invoice_no |-> FieldValue(Str(<<"i","n","v","-","2","0","2","4","-","0","0","1">>), 90),
     vendor |-> FieldValue(Str(<<"A","C","M","E"," ","C","O","R","P"," ","L","T","D">>), 90),
     date |-> FieldValue(Str(<<"2","0","2","4","-","0","1","-","1","5">>), 90),
     total |-> FieldValue(Str(<<"1","2","3","4",".","5","6">>), 90)]
ConflictingSchema ==
    [vendor |-> FieldValue(Str(AcmeCorp), 60),
     total |-> FieldValue(Str(<<"1","2","3","4",".","6","5">>), 90)]
StoredNamesSchema ==
    [vendor_name |-> FieldValue(Str(AcmeCorp), 90),
     invoice_number |-> FieldValue(Str(<<"I","N","V","-","2","0","2","4","-","0","0","1">>), 90),
     total_amount |-> FieldValue(Num(1234), 90)]
NumericTotalSchema ==
    [total |-> FieldValue(Num(1234), 90)]

LayoutSchemas ==
    {EmptyDict, AgreeingSchema, ConflictingSchema, StoredNamesSchema, NumericTotalSchema}

\* (mutation: the comparison is skipped when the model extraction failed)
AfterAiExtraction_SkipOnError(ai_result) ==
    IF "error" \in DOMAIN ai_result THEN "pipeline_return" ELSE "compare"

\* the statement that follows `result["ai_extraction"] = ai_result`: the call
\* of _compare_extractions, whatever the model extraction returned
AfterAiExtraction(ai_result) == "compare"

InitPipeline ==
    /\ pc = "idle"
    /\ regex_extraction = EmptyDict
    /\ ai_extraction = EmptyDict
    /\ comparison = EmptyDict
    /\ field_i = 0
    /\ caller = "pipeline"
    /\ memo = EmptyDict
    /\ PHASE1_AVAILABLE \in BOOLEAN
    /\ AI_AVAILABLE \in BOOLEAN
    /\ ocr_result = EmptyDict
    /\ result = EmptyDict
    /\ db = <<>>
    /\ marked = <<>>
    /\ response = EmptyDict
    /\ request = EmptyDict
    /\ NormIdle
    /\ BatchIdle
    /\ IngestIdle

\* os.getenv('API_KEY', 'dev-key-12345')
expected_key == "dev-key-12345"

\* the headers of a request: no key, the expected key, another key
RequestHeaders ==
    {EmptyDict, [X_API_KEY |-> expected_key], [X_API_KEY |-> "invalid-key"]}

\* require_api_key: the 401 response, or None (here {}) to go on
require_api_key(headers) ==
    IF "X_API_KEY" \in DOMAIN headers /\ headers.X_API_KEY = expected_key
    THEN EmptyDict
    ELSE [status |-> 401, error |-> "Invalid API key"]

ALLOWED_EXTENSIONS ==
    {<<"p","n","g">>, <<"j","p","g">>, <<"j","p","e","g">>,
     <<"t","i","f","f">>, <<"b","m","p">>}

\* filename.rsplit('.', 1)[1]: the text after the last dot
Extension(filename) ==
    LET dots == {i \in 1..Len(filename) : filename[i] = "."}
        last == CHOOSE i \in dots : \A j \in dots : j <= i
    IN  SubSeq(filename, last + 1, Len(filename))

\* (mutation: any filename with a dot is allowed)
allowed_file_AnyExtension(filename) == "." \in Range(filename)

allowed_file(filename) ==
    "." \in Range(filename) /\ Lower(Extension(filename)) \in ALLOWED_EXTENSIONS

PngName == <<"a",".","p","n","g">>
UpperJpgName == <<"a",".","J","P","G">>
PdfName == <<"a",".","p","d","f">>
NoDotName == <<"p","n","g">>

\* request.files: without a file part, or with a file of some name
RequestFiles ==
    {EmptyDict} \cup
        {[file |-> [filename |-> f]] : f \in {<<>>, PngName, UpperJpgName, PdfName, NoDotName}}

\* (mutation: the file part is validated before the API key)
ExtractInvoiceChecks_FileFirst(headers, files) ==
    IF "file" \notin DOMAIN files
        THEN [status |-> 400, error |-> "No file provided"]
    ELSE IF files.file.filename = <<>>
        THEN [status |-> 400, error |-> "No file selected"]
    ELSE IF ~allowed_file(files.file.filename)
        THEN [status |-> 400, error |-> "File type not allowed"]
    ELSE require_api_key(headers)

\* the early returns of extract_invoice: the response, or {} to go on
ExtractInvoiceChecks(headers, files) ==
    IF require_api_key(headers) # EmptyDict
        THEN require_api_key(headers)
    ELSE IF "file" \notin DOMAIN files
        THEN [status |-> 400, error |-> "No file provided"]
    ELSE IF files.file.filename = <<>>
        THEN [status |-> 400, error |-> "No file selected"]
    ELSE IF ~allowed_file(files.file.filename)
        THEN [status |-> 400, error |-> "File type not allowed"]
    ELSE EmptyDict

\* extract_invoice up to the call of the pipeline: the API key, then the file
ExtractInvoiceRequest ==
    /\ pc = "idle"
    /\ Len(db) < MaxInvoices
    /\ \E headers \in RequestHeaders, files \in RequestFiles :
        /\ request' = [endpoint |-> "extract_invoice", headers |-> headers, files |-> files]
        /\ response' = ExtractInvoiceChecks(headers, files)
        /\ pc' = IF ExtractInvoiceChecks(headers, files) # EmptyDict THEN "idle" ELSE "process"
        /\ marked' = IF ExtractInvoiceChecks(headers, files) # EmptyDict THEN marked ELSE <<>>
    /\ UNCHANGED <<compareVars, flagVars, pipelineVars, db>>
    /\ UNCHANGED <<normVars, batchVars>>
    /\ UNCHANGED ingestVars

\* the endpoints that read the database
GetEndpoints ==
    {"invoices", "invoice_detail", "metrics_kpis", "metrics_top_vendors",
     "metrics_time_series", "export_csv"}

\* get_invoices, get_invoice_detail, get_kpis, get_top_vendors,
\* get_time_series, export_csv: the API key, then a database session that
\* answers, finds no such invoice, or raises
GetRequest ==
    /\ pc = "idle"
    /\ \E endpoint \in GetEndpoints, headers \in RequestHeaders, invoice_id \in 1..MaxInvoices :
        /\ request' = [endpoint |-> endpoint, headers |-> headers, files |-> EmptyDict]
        /\ IF require_api_key(headers) # EmptyDict
           THEN response' = require_api_key(headers)
           ELSE \/ response' = [status |-> 500, error |-> "database error"]
                \/ response' =
                       IF endpoint = "invoice_detail" /\ invoice_id > Len(db)
                       THEN [status |-> 404, error |-> "Invoice not found"]
                       ELSE [status |-> 200, rows |-> Len(db)]
    /\ UNCHANGED <<pc, compareVars, flagVars, pipelineVars, db, marked>>
    /\ UNCHANGED <<normVars, batchVars>>
    /\ UNCHANGED ingestVars

\* api_docs: no API key is asked for
ApiDocs ==
    /\ pc = "idle"
    /\ \E headers \in RequestHeaders :
        request' = [endpoint |-> "docs", headers |-> headers, files |-> EmptyDict]
    /\ response' = [status |-> 200, title |-> "Invoice Processing API"]
    /\ UNCHANGED <<pc, compareVars, flagVars, pipelineVars, db, marked>>
    /\ UNCHANGED <<normVars, batchVars>>
    /\ UNCHANGED ingestVars

\* process_invoice_with_ai: the result dict is created
ProcessBegin ==
    /\ pc = "process"
    /\ result' = [invoice_path |-> IF file_i > 0
                                   THEN directory.files[file_i]
                                   ELSE request.files.file.filename,
                  ocr_text |-> <<>>,
                  regex_extraction |-> EmptyDict,
                  ai_extraction |-> EmptyDict,
                  comparison |-> EmptyDict,
                  errors |-> <<>>]
    /\ pc' = "ocr"
    /\ UNCHANGED <<compareVars, flagVars, ocr_result, apiVars>>
    /\ UNCHANGED <<normVars, batchVars>>
    /\ UNCHANGED ingestVars

\* ocr_result = _run_phase1_ocr(invoice_path), copied into result
RunPhase1Ocr ==
    /\ pc = "ocr"
    /\ IF ~PHASE1_AVAILABLE
       THEN ocr_result' = Phase1Unavailable
       ELSE \/ ocr_result' = OcrFailed
            \/ \E tesseract_text \in OcrTexts, easyocr_text \in OcrTexts :
                   ocr_result' = OcrSucceeded(tesseract_text, easyocr_text)
    /\ result' = [result EXCEPT
           !.ocr_text = DictGet(ocr_result', "ocr_text", <<>>),
           !.regex_extraction = DictGet(ocr_result', "regex_extraction", EmptyDict)]
    /\ pc' = "ai"
    /\ UNCHANGED <<compareVars, flagVars, apiVars>>
    /\ UNCHANGED <<normVars, batchVars>>
    /\ UNCHANGED ingestVars

\* ai_result = _run_ai_extraction(invoice_path, ocr_result), stored in result;
\* then _compare_extractions is called with the two extractions of result
RunAiExtraction ==
    /\ pc = "ai"
    /\ \E ai_result \in
           IF ~AI_AVAILABLE
           THEN {AiFailure("AI modules not available")}
           ELSE {AiFailure("inference error"), AiFailure("AI extraction failed")}
                    \cup {AiSuccess(schema) : schema \in LayoutSchemas} :
        /\ result' = [result EXCEPT !.ai_extraction = ai_result]
        /\ regex_extraction' = result.regex_extraction
        /\ ai_extraction' = ai_result
        /\ pc' = AfterAiExtraction(ai_result)
    /\ caller' = "pipeline"
    /\ UNCHANGED <<comparison, field_i, memo, flagVars, ocr_result, apiVars>>
    /\ UNCHANGED <<normVars, batchVars>>
    /\ UNCHANGED ingestVars

\* result["comparison"] = _compare_extractions(...); return result
PipelineCompareReturn ==
    /\ pc = "compare_return"
    /\ caller = "pipeline"
    /\ result' = [result EXCEPT !.comparison = comparison]
    /\ pc' = "pipeline_return"
    /\ UNCHANGED <<compareVars, flagVars, ocr_result, apiVars>>
    /\ UNCHANGED <<normVars, batchVars>>
    /\ UNCHANGED ingestVars

\* (mutation: the handler is `except ValueError`)
ExceptionCaught_ValueErrorOnly(exception) == exception = "ValueError"

\* `except Exception` catches every exception a stage can raise
ExceptionCaught(exception) ==
    exception \in {"AttributeError", "TypeError", "ValueError", "KeyError", "OSError"}

\* the AttributeError of the reconciliation reaches the handler of
\* process_invoice_with_ai: the error is appended to result["errors"] and
\* result is returned; an exception that is not caught leaves the function
PipelineExcept ==
    /\ pc = "compare_raised"
    /\ caller = "pipeline"
    /\ IF ExceptionCaught("AttributeError")
       THEN /\ result' = [result EXCEPT !.errors = Append(@, "Pipeline error")]
            /\ pc' = "pipeline_return"
       ELSE /\ result' = result
            /\ pc' = "pipeline_raised"
    /\ UNCHANGED <<compareVars, flagVars, ocr_result, apiVars>>
    /\ UNCHANGED <<normVars, batchVars>>
    /\ UNCHANGED ingestVars

\* schema.get(name, {}).get("value")
SchemaValue(schema, name) == DictGet(DictGet(schema, name, EmptyDict), "value", PyNone)

\* class ExtractionMethod(enum.Enum): the names of its members
ExtractionMethod == {"OCR", "REGEX", "GEMINI"}

\* the order of the store_extraction calls, by the member each one names
MethodOrder == <<"OCR", "REGEX", "LAYOUTLM">>

\* `ExtractionMethod.<name>` raises AttributeError for a name the enum lacks
MethodRaises(requested) == \E m \in requested : m \notin ExtractionMethod

\* the extraction rows added before the first call that raises
StoredBefore(requested) ==
    {MethodOrder[i] : i \in {i \in DOMAIN MethodOrder :
        /\ MethodOrder[i] \in requested
        /\ \A j \in 1..i :
               MethodOrder[j] \in requested => MethodOrder[j] \in ExtractionMethod}}

\* the store_extraction calls the endpoint makes for a result: one for each
\* of ocr_text, regex_extraction and ai_extraction that is truthy
StoredMethods(res) ==
    (IF res.ocr_text # <<>> THEN {"OCR"} ELSE {})
        \cup (IF res.regex_extraction # EmptyDict THEN {"REGEX"} ELSE {})
        \cup (IF res.ai_extraction # EmptyDict THEN {"LAYOUTLM"} ELSE {})

\* comp.get("conflict")
ConflictFlag(comp) == DictGet(comp, "conflict", FALSE)

\* the fields of the loop over field_comparisons.items() that are marked
ConflictFields(field_comparisons) ==
    SelectSeq(fields_to_compare,
              LAMBDA f : f \in DOMAIN field_comparisons
                            /\ ConflictFlag(field_comparisons[f]))

\* the mark_anomaly calls of the loop
Anomalies(field_comparisons) ==
    LET fs == ConflictFields(field_comparisons)
    IN  [k \in DOMAIN fs |-> [field |-> fs[k], score |-> 80]]

\* the invoice row and the rows attached to it
InvoiceRow(id, res) ==
    LET schema == DictGet(res.ai_extraction, "schema", EmptyDict)
    IN  [id |-> id,
         vendor |-> SchemaValue(schema, "vendor_name"),
         invoice_no |-> SchemaValue(schema, "invoice_number"),
         total |-> SchemaValue(schema, "total_amount"),
         extractions |-> StoredMethods(res),
         anomalies |-> Anomalies(DictGet(res.comparison, "field_comparisons", EmptyDict))]

\* extract_invoice after the pipeline returned: a result without errors is
\* stored and committed; when naming the extraction method or a database
\* call raises, the except clause rolls back
StoreResult ==
    /\ pc = "pipeline_return"
    /\ IF result.errors # <<>> \/ MethodRaises(StoredMethods(result))
       THEN UNCHANGED <<result, db, marked>>
       ELSE \/ LET row == InvoiceRow(Len(db) + 1, result)
               IN  /\ db' = Append(db, row)
                   /\ marked' = row.anomalies
                   /\ result' = [k \in DOMAIN result \cup {"invoice_id"} |->
                                    IF k = "invoice_id" THEN row.id ELSE result[k]]
            \/ UNCHANGED <<result, db, marked>>
    /\ pc' = "respond"
    /\ UNCHANGED <<compareVars, flagVars, ocr_result, response, request>>
    /\ UNCHANGED <<normVars, batchVars>>
    /\ UNCHANGED ingestVars

\* return jsonify(result); the locals of the request are gone
Respond ==
    /\ pc = "respond"
    /\ response' = [status |-> 200,
                    invoice_id |-> DictGet(result, "invoice_id", 0),
                    errors |-> result.errors]
    /\ pc' = "idle"
    /\ result' = EmptyDict
    /\ ocr_result' = EmptyDict
    /\ regex_extraction' = EmptyDict
    /\ ai_extraction' = EmptyDict
    /\ comparison' = EmptyDict
    /\ field_i' = 0
    /\ UNCHANGED <<caller, memo, flagVars, db, marked, request>>
    /\ UNCHANGED <<normVars, batchVars>>
    /\ UNCHANGED ingestVars

Next ==
    \/ ExtractInvoiceRequest
    \/ GetRequest
    \/ ApiDocs
    \/ ProcessBegin
    \/ RunPhase1Ocr
    \/ RunAiExtraction
    \/ CompareBegin
    \/ CompareField
    \/ CompareMetrics
    \/ PipelineCompareReturn
    \/ PipelineExcept
    \/ StoreResult
    \/ Respond

Spec == InitPipeline /\ [][Next]_vars

-----------------------------------------------------------------------------
(* GeminiExtractor._structure_extracted_data: the schema normalizer *)

\* the expected fields in the order of the dict, each with its expected type
\* (a class, or the tuple (int, float); here always a tuple of class names),
\* the key of its separate confidence f"{field}_confidence", and its name
\* as text
field_mappings == <<
    [name |-> "vendor_name", type |-> <<"str">>, conf |-> "vendor_name_confidence",
     chars |-> <<"v","e","n","d","o","r","_","n","a","m","e">>],
    [name |-> "invoice_number", type |-> <<"str">>, conf |-> "invoice_number_confidence",
     chars |-> <<"i","n","v","o","i","c","e","_","n","u","m","b","e","r">>],
    [name |-> "invoice_date", type |-> <<"str">>, conf |-> "invoice_date_confidence",
     chars |-> <<"i","n","v","o","i","c","e","_","d","a","t","e">>],
    [name |-> "total_amount", type |-> <<"int", "float">>, conf |-> "total_amount_confidence",
     chars |-> <<"t","o","t","a","l","_","a","m","o","u","n","t">>],
    [name |-> "currency", type |-> <<"str">>, conf |-> "currency_confidence",
     chars |-> <<"c","u","r","r","e","n","c","y">>],
    [name |-> "vendor_address", type |-> <<"str">>, conf |-> "vendor_address_confidence",
     chars |-> <<"v","e","n","d","o","r","_","a","d","d","r","e","s","s">>],
    [name |-> "customer_name", type |-> <<"str">>, conf |-> "customer_name_confidence",
     chars |-> <<"c","u","s","t","o","m","e","r","_","n","a","m","e">>],
    [name |-> "customer_address", type |-> <<"str">>, conf |-> "customer_address_confidence",
     chars |-> <<"c","u","s","t","o","m","e","r","_","a","d","d","r","e","s","s">>],
    [name |-> "due_date", type |-> <<"str">>, conf |-> "due_date_confidence",
     chars |-> <<"d","u","e","_","d","a","t","e">>],
    [name |-> "subtotal", type |-> <<"int", "float">>, conf |-> "subtotal_confidence",
     chars |-> <<"s","u","b","t","o","t","a","l">>],
    [name |-> "tax_amount", type |-> <<"int", "float">>, conf |-> "tax_amount_confidence",
     chars |-> <<"t","a","x","_","a","m","o","u","n","t">>],
    [name |-> "discount_amount", type |-> <<"int", "float">>, conf |-> "discount_amount_confidence",
     chars |-> <<"d","i","s","c","o","u","n","t","_","a","m","o","u","n","t">>],
    [name |-> "line_items", type |-> <<"list">>, conf |-> "line_items_confidence",
     chars |-> <<"l","i","n","e","_","i","t","e","m","s">>],
    [name |-> "language_detected", type |-> <<"str">>, conf |-> "language_detected_confidence",
     chars |-> <<"l","a","n","g","u","a","g","e","_","d","e","t","e","c","t","e","d">>]>>

\* isinstance(v, dict)
IsDict(v) == "t" \notin DOMAIN v

DigitChars == <<"0","1","2","3","4","5","6","7","8","9">>

\* the decimal digits of a natural number
RECURSIVE DecimalDigits(_)
DecimalDigits(k) ==
    IF k < 10 THEN <<DigitChars[k + 1]>>
    ELSE Append(DecimalDigits(k \div 10), DigitChars[(k % 10) + 1])

\* the natural number a sequence of decimal digits denotes
RECURSIVE DecimalValue(_)
DecimalValue(s) ==
    IF s = <<>> THEN 0
    ELSE 10 * DecimalValue(SubSeq(s, 1, Len(s) - 1))
             + (CHOOSE d \in 0..9 : DigitChars[d + 1] = s[Len(s)])

IsDecimal(s) == s # <<>> /\ \A i \in 1..Len(s) : s[i] \in Digits

\* str(v) of an int, of a float without a fraction, and of the empty list
\* (the repr of a dict or of a longer list is not needed for the inputs here)
StrOf(v) ==
    CASE v.t = "int" -> DecimalDigits(v.n)
      [] v.t = "num" -> DecimalDigits(v.n) \o <<".", "0">>
      [] v.t = "list" /\ v.s = <<>> -> <<"[", "]">>

\* float(v) raises TypeError on None, a list and a dict, and ValueError on
\* text that is not a number (the texts here have no sign, fraction or exponent)
FloatRaises(v) ==
    \/ IsDict(v)
    \/ v.t \in {"none", "list"}
    \/ v.t = "str" /\ ~IsDecimal(Strip(v.s))

FloatOf(v) == IF v.t = "str" THEN Num(DecimalValue(Strip(v.s))) ELSE Num(v.n)

\* float(confidence) in hundredths; a number under a confidence key is given
\* in hundredths, a text in units
HundredthsOf(v) == IF v.t = "str" THEN 100 * DecimalValue(Strip(v.s)) ELSE v.n

\* `field in data` raises TypeError on a number and on None
FieldInRaises(d) == ~IsDict(d) /\ d.t \notin {"list", "str"}

\* `field in data`: a key of a dict, an item of a list (the items of a list
\* are given as keys are), a part of a text
FieldIn(fm, d) ==
    IF IsDict(d) THEN fm.name \in DOMAIN d
    ELSE IF d.t = "list" THEN fm.name \in Range(d.s)
    ELSE Contains(d.s, fm.chars)

\* type(v).__name__ for the values that are not dicts
TypeName(v) ==
    CASE v.t = "str" -> "str"
      [] v.t = "int" -> "int"
      [] v.t = "num" -> "float"
      [] v.t = "list" -> "list"
      [] v.t = "none" -> "NoneType"

\* isinstance(v, expected_type)
IsInstance(v, expected_type) == ~IsDict(v) /\ TypeName(v) \in Range(expected_type)

\* (mutation: float() is applied to the numeric fields and a value it
\* rejects is replaced by None)
Coerce_NoneOnFailure(actual_value, expected_type) ==
    IF ~IsDict(actual_value) /\ actual_value.t = "none"
        THEN actual_value
    ELSE IF IsInstance(actual_value, expected_type)
        THEN actual_value
    ELSE IF expected_type = <<"str">>
        THEN Str(StrOf(actual_value))
    ELSE IF expected_type = <<"int", "float">>
        THEN IF FloatRaises(actual_value) THEN PyNone ELSE FloatOf(actual_value)
    ELSE actual_value

\* the type validation: the value after `structured[field]["value"] = ...`.
\* It is left as it was when it is None or has the expected type.
\* `expected_type == str` converts with str(); `expected_type in (int, float)`
\* asks whether expected_type is the class int or the class float, which the
\* tuple (int, float) is not, so float() is applied to no field.
Coerce(actual_value, expected_type) ==
    IF ~IsDict(actual_value) /\ actual_value.t = "none"
        THEN actual_value
    ELSE IF IsInstance(actual_value, expected_type)
        THEN actual_value
    ELSE IF expected_type = <<"str">>
        THEN Str(StrOf(actual_value))
    ELSE IF expected_type \in {<<"int">>, <<"float">>}
        THEN IF FloatRaises(actual_value) THEN actual_value ELSE FloatOf(actual_value)
    ELSE actual_value

\* data after `structured[field] = value; structured[field]["value"] = ...`:
\* the stored dict is the dict of data itself
Stored(d, fm, entry) == [d EXCEPT ![fm.name] = entry]

\* (mutation: one key "confidence" is read for every field)
SiblingConfidence_SharedKey(d, fm) == DictGet(d, "confidence", Num(80))

\* data.get(f"{field}_confidence", 0.8)
SiblingConfidence(d, fm) == DictGet(d, fm.conf, Num(80))

\* one pass of the loop body: data and structured after it, and whether it
\* raised
FieldStep(d, st, fm) ==
    IF FieldInRaises(d)
        THEN [data |-> d, structured |-> st, raised |-> TRUE]
    ELSE IF ~FieldIn(fm, d)
        THEN [data |-> d, structured |-> st, raised |-> FALSE]
    ELSE IF ~IsDict(d)
        THEN [data |-> d, structured |-> st, raised |-> TRUE]
    ELSE
        LET value == d[fm.name]
            nested == IsDict(value) /\ "value" \in DOMAIN value
            confidence == SiblingConfidence(d, fm)
        IN  IF ~nested /\ FloatRaises(confidence)
            THEN [data |-> d, structured |-> st, raised |-> TRUE]
            ELSE
                LET entry == IF nested THEN value
                             ELSE [value |-> value, confidence |-> HundredthsOf(confidence)]
                    typed == IF fm.name # "line_items"
                             THEN [entry EXCEPT !.value = Coerce(@, fm.type)]
                             ELSE entry
                IN  [data |-> IF nested THEN Stored(d, fm, typed) ELSE d,
                     structured |-> [f \in DOMAIN st \cup {fm.name} |->
                                        IF f = fm.name THEN typed ELSE st[f]],
                     raised |-> FALSE]

\* entry of _structure_extracted_data: structured = {}
NormalizeBegin ==
    /\ pc = "normalize"
    /\ structured' = EmptyDict
    /\ norm_i' = 1
    /\ pc' = "normalize_loop"
    /\ UNCHANGED <<data, compareVars, flagVars, pipelineVars, apiVars, batchVars>>
    /\ UNCHANGED ingestVars

\* one iteration of `for field, expected_type in field_mappings.items()`
NormalizeField ==
    /\ pc = "normalize_loop"
    /\ norm_i <= Len(field_mappings)
    /\ LET step == FieldStep(data, structured, field_mappings[norm_i])
       IN  /\ data' = step.data
           /\ structured' = step.structured
           /\ norm_i' = IF step.raised THEN norm_i ELSE norm_i + 1
           /\ pc' = IF step.raised THEN "normalize_raised" ELSE pc
    /\ UNCHANGED <<compareVars, flagVars, pipelineVars, apiVars, batchVars>>
    /\ UNCHANGED ingestVars

\* return structured
NormalizeReturn ==
    /\ pc = "normalize_loop"
    /\ norm_i > Len(field_mappings)
    /\ pc' = "normalize_return"
    /\ UNCHANGED <<compareVars, flagVars, pipelineVars, apiVars, normVars, batchVars>>
    /\ UNCHANGED ingestVars

Twelve == <<"1", "2">>
NotANumber == <<"N", "/", "A">>

\* raw values of vendor_name, of total_amount and of line_items, and raw
\* confidences of vendor_name
RawVendorNames ==
    {Str(ACME), PyInt(12), PyNone,
     [value |-> Str(ACME), confidence |-> 90],
     [value |-> PyInt(12), confidence |-> 90],
     [value |-> Str(ACME)],
     [value |-> Str(ACME), confidence |-> 150]}
RawTotalAmounts ==
    {Num(1234), PyInt(12), Str(Twelve), Str(NotANumber), PyNone,
     [value |-> Str(Twelve), confidence |-> 90],
     [amount |-> PyInt(12)]}
RawLineItems == {PyList(<<>>)}
RawConfidences == {Num(90), Num(150), Str(<<"h","i","g","h">>), Str(<<"1">>), PyNone}

\* the dict that gives key the value v, or nothing when v is Absent
Absent == [t |-> "absent", s |-> <<>>, n |-> 0]
Entry(key, v) == IF v = Absent THEN EmptyDict ELSE [k \in {key} |-> v]
\* the union of dicts with disjoint keys
Merge(a, b) == [k \in DOMAIN a \cup DOMAIN b |-> IF k \in DOMAIN a THEN a[k] ELSE b[k]]

\* json.loads gives a dict, or a list, a text, a number or null
RawMappings ==
    {Merge(Merge(Entry("vendor_name", v), Entry("vendor_name_confidence", c)),
           Merge(Entry("total_amount", a), Entry("line_items", l))) :
        v \in RawVendorNames \cup {Absent}, c \in RawConfidences \cup {Absent},
        a \in RawTotalAmounts \cup {Absent}, l \in RawLineItems \cup {Absent}}
RawNonMappings ==
    {PyList(<<>>), PyList(<<"vendor_name">>), Str(ACME),
     Str(<<"v","e","n","d","o","r","_","n","a","m","e">>), PyInt(12), PyNone}

InitNormalize ==
    /\ pc = "normalize"
    /\ data \in RawMappings \cup RawNonMappings
    /\ structured = EmptyDict
    /\ norm_i = 0
    /\ regex_extraction = EmptyDict
    /\ ai_extraction = EmptyDict
    /\ comparison = EmptyDict
    /\ field_i = 0
    /\ caller = "direct"
    /\ memo = EmptyDict
    /\ PHASE1_AVAILABLE = TRUE
    /\ AI_AVAILABLE = TRUE
    /\ ocr_result = EmptyDict
    /\ result = EmptyDict
    /\ db = <<>>
    /\ marked = <<>>
    /\ response = EmptyDict
    /\ request = EmptyDict
    /\ BatchIdle
    /\ IngestIdle

NextNormalize == NormalizeBegin \/ NormalizeField \/ NormalizeReturn

SpecNormalize == InitNormalize /\ [][NextNormalize]_vars

-----------------------------------------------------------------------------
(* batch_process_invoices and save_pipeline_results *)

\* how many files the listed directory holds at most
MaxFiles == 2

image_extensions ==
    {<<".","j","p","g">>, <<".","j","p","e","g">>, <<".","p","n","g">>,
     <<".","t","i","f","f">>, <<".","b","m","p">>}

\* Path(name).suffix: the text from the last dot on, or "" without a dot
Suffix(name) ==
    IF "." \in Range(name) THEN <<".">> \o Extension(name) ELSE <<>>

\* file_path.suffix.lower() in image_extensions
IsImage(name) == Lower(Suffix(name)) \in image_extensions

FileNames == {PngName, UpperJpgName, PdfName}

\* Path(invoice_dir).iterdir(): the files in some order, each once
Listings ==
    {l \in UNION {[1..n -> FileNames] : n \in 0..MaxFiles} :
        \A i, j \in DOMAIN l : i # j => l[i] # l[j]}

\* the directory is missing, or it exists with some listing
Directories == {NoDirectory} \cup {[exists |-> TRUE, files |-> l] : l \in Listings}

\* the image files of a listing, in its order
ImagesOf(files) == SelectSeq(files, IsImage)

InitBatch ==
    /\ pc = "batch"
    /\ directory \in Directories
    /\ file_i = 0
    /\ results = <<>>
    /\ saved = <<>>
    /\ regex_extraction = EmptyDict
    /\ ai_extraction = EmptyDict
    /\ comparison = EmptyDict
    /\ field_i = 0
    /\ caller = "pipeline"
    /\ memo = EmptyDict
    /\ PHASE1_AVAILABLE \in BOOLEAN
    /\ AI_AVAILABLE \in BOOLEAN
    /\ ocr_result = EmptyDict
    /\ result = EmptyDict
    /\ db = <<>>
    /\ marked = <<>>
    /\ response = EmptyDict
    /\ request = EmptyDict
    /\ NormIdle
    /\ IngestIdle

\* entry of batch_process_invoices: [] for a missing directory, else the
\* loop over the directory starts
BatchBegin ==
    /\ pc = "batch"
    /\ results' = <<>>
    /\ file_i' = IF directory.exists THEN 1 ELSE 0
    /\ pc' = IF directory.exists THEN "batch_loop" ELSE "batch_done"
    /\ UNCHANGED <<directory, saved>>
    /\ UNCHANGED <<compareVars, flagVars, pipelineVars, apiVars, normVars>>
    /\ UNCHANGED ingestVars

\* one file of the loop: a file that is not an image is passed over, an
\* image is handed to process_invoice_with_ai
BatchFile ==
    /\ pc = "batch_loop"
    /\ file_i <= Len(directory.files)
    /\ IF IsImage(directory.files[file_i])
       THEN pc' = "process" /\ file_i' = file_i
       ELSE pc' = pc /\ file_i' = file_i + 1
    /\ UNCHANGED <<directory, results, saved>>
    /\ UNCHANGED <<compareVars, flagVars, pipelineVars, apiVars, normVars>>
    /\ UNCHANGED ingestVars

\* results.append(result); save_pipeline_results(result): the result file is
\* written, or makedirs, open or json.dump raises and the exception leaves
\* batch_process_invoices
BatchCollect ==
    /\ pc = "pipeline_return"
    /\ file_i > 0
    /\ results' = Append(results, result)
    /\ \/ /\ saved' = Append(saved, result)
          /\ file_i' = file_i + 1
          /\ pc' = "batch_loop"
       \/ /\ saved' = saved
          /\ file_i' = file_i
          /\ pc' = "batch_raised"
    /\ result' = EmptyDict
    /\ ocr_result' = EmptyDict
    /\ regex_extraction' = EmptyDict
    /\ ai_extraction' = EmptyDict
    /\ comparison' = EmptyDict
    /\ field_i' = 0
    /\ UNCHANGED <<directory, caller, memo, flagVars, apiVars, normVars>>
    /\ UNCHANGED ingestVars

\* return results
BatchReturn ==
    /\ pc = "batch_loop"
    /\ file_i > Len(directory.files)
    /\ pc' = "batch_done"
    /\ UNCHANGED <<compareVars, flagVars, pipelineVars, apiVars, normVars, batchVars>>
    /\ UNCHANGED ingestVars

NextBatch ==
    \/ BatchBegin
    \/ BatchFile
    \/ ProcessBegin
    \/ RunPhase1Ocr
    \/ RunAiExtraction
    \/ CompareBegin
    \/ CompareField
    \/ CompareMetrics
    \/ PipelineCompareReturn
    \/ PipelineExcept
    \/ BatchCollect
    \/ BatchReturn

SpecBatch == InitBatch /\ [][NextBatch]_vars

-----------------------------------------------------------------------------
(* db/ingest_from_json.py *)

\* how many JSON files the data directory holds at most
MaxJsonFiles == 2

\* extract_invoice_data: the values of the model schema, then, if that left
\* no vendor, dict.update with what the pattern extraction has under
\* "vendor", "invoice_number", "date" and "total"
extract_invoice_data(json_data) ==
    LET has_schema == /\ "ai_extraction" \in DOMAIN json_data
                      /\ "schema" \in DOMAIN json_data.ai_extraction
        schema == json_data.ai_extraction.schema
        from_schema ==
            IF has_schema
            THEN [vendor |-> SchemaValue(schema, "vendor_name"),
                  invoice_no |-> SchemaValue(schema, "invoice_number"),
                  date |-> SchemaValue(schema, "invoice_date"),
                  subtotal |-> SchemaValue(schema, "subtotal"),
                  tax |-> SchemaValue(schema, "tax_amount"),
                  total |-> SchemaValue(schema, "total_amount"),
                  currency |-> DictGet(DictGet(schema, "currency", EmptyDict),
                                       "value", Str(<<"U","S","D">>))]
            ELSE EmptyDict
        fallback == /\ ~Truthy(DictGet(from_schema, "vendor", PyNone))
                    /\ "regex_extraction" \in DOMAIN json_data
        regex_data == json_data.regex_extraction
        from_regex == [vendor |-> DictGet(regex_data, "vendor", PyNone),
                       invoice_no |-> DictGet(regex_data, "invoice_number", PyNone),
                       date |-> DictGet(regex_data, "date", PyNone),
                       total |-> DictGet(regex_data, "total", PyNone)]
    IN  IF fallback THEN Merge(from_regex, from_schema) ELSE from_schema

\* the store_extraction calls of ingest_single_file: one for each of the
\* keys "ocr_text", "regex_extraction" and "ai_extraction" of the file
IngestMethods(json_data) ==
    (IF "ocr_text" \in DOMAIN json_data THEN {"OCR"} ELSE {})
        \cup (IF "regex_extraction" \in DOMAIN json_data THEN {"REGEX"} ELSE {})
        \cup (IF "ai_extraction" \in DOMAIN json_data THEN {"LAYOUTLM"} ELSE {})

\* anomaly.get(...) raises AttributeError on an entry that is no dict
AnomalyRaises(anomalies) == \E k \in DOMAIN anomalies : ~IsDict(anomalies[k])

\* the mark_anomaly calls made before the loop over json_data["anomalies"]
\* ends or raises
IngestAnomalies(anomalies) ==
    LET good == {k \in DOMAIN anomalies : \A j \in 1..k : IsDict(anomalies[j])}
    IN  [k \in 1..Cardinality(good) |->
            [field |-> DictGet(anomalies[k], "field", "unknown"),
             score |-> DictGet(anomalies[k], "score", 50)]]

\* a file json.load rejects
NotJson == [t |-> "notjson", s |-> <<>>, n |-> 0]

\* the try block of ingest_single_file up to the commit: the invoice row
\* with the rows attached to it before the block ended or raised
IngestFile(json_data, id, file) ==
    IF json_data = NotJson
    THEN [added |-> FALSE, raised |-> TRUE, info |-> EmptyDict]
    ELSE
        LET info == extract_invoice_data(json_data)
            requested == IngestMethods(json_data)
            anomalies == DictGet(json_data, "anomalies", <<>>)
        IN  [added |-> TRUE,
             raised |-> MethodRaises(requested) \/ AnomalyRaises(anomalies),
             info |-> info,
             row |-> [id |-> id,
                      file |-> file,
                      vendor |-> DictGet(info, "vendor", PyNone),
                      invoice_no |-> DictGet(info, "invoice_no", PyNone),
                      date |-> DictGet(info, "date", PyNone),
                      total |-> DictGet(info, "total", PyNone),
                      extractions |-> StoredBefore(requested),
                      anomalies |-> IF MethodRaises(requested) THEN <<>>
                                    ELSE IngestAnomalies(anomalies)]]

\* create_invoice_record, store_extraction and mark_anomaly of db.crud: the
\* rows are added to the session, which assigns the id; the commit is left
\* to the caller
SessionAdd(pending, row) == Append(pending, row)

\* (mutation: the except clause does not roll back)
AfterRaise_NoRollback(commit_flag, pending) == pending

\* the session after `except Exception: if commit: db.rollback()`
AfterRaise(commit_flag, pending) == IF commit_flag THEN <<>> ELSE pending

\* main(): the files are listed and the session is opened, or main returns
\* when there is no file
IngestBegin ==
    /\ pc = "ingest"
    /\ json_i' = IF json_files = <<>> THEN 0 ELSE 1
    /\ pc' = IF json_files = <<>> THEN "ingest_done" ELSE "ingest_loop"
    /\ session' = <<>>
    /\ returned' = <<>>
    /\ UNCHANGED <<json_files, commit, invoice_info>>
    /\ UNCHANGED <<compareVars, flagVars, pipelineVars, apiVars, normVars, batchVars>>

\* one call ingest_single_file(db, str(json_file), args.commit) of the loop:
\* the rows are added, then committed or rolled back; db.commit() may raise
IngestSingleFile ==
    /\ pc = "ingest_loop"
    /\ json_i <= Len(json_files)
    /\ LET file == IngestFile(json_files[json_i], Len(db) + Len(session) + 1, json_i)
           pending == IF file.added THEN SessionAdd(session, file.row) ELSE session
       IN  \E commit_raises \in BOOLEAN :
               LET raised == file.raised \/ (commit /\ commit_raises)
               IN  /\ invoice_info' = file.info
                   /\ db' = IF ~raised /\ commit THEN db \o pending ELSE db
                   /\ session' = IF raised THEN AfterRaise(commit, pending) ELSE <<>>
                   /\ returned' = Append(returned, ~raised)
    /\ json_i' = json_i + 1
    /\ UNCHANGED <<pc, json_files, commit>>
    /\ UNCHANGED <<marked, response, request>>
    /\ UNCHANGED <<compareVars, flagVars, pipelineVars, normVars, batchVars>>

\* finally: db.close(); what was not committed is gone
IngestClose ==
    /\ pc = "ingest_loop"
    /\ json_i > Len(json_files)
    /\ session' = <<>>
    /\ pc' = "ingest_done"
    /\ UNCHANGED <<json_files, commit, json_i, invoice_info, returned>>
    /\ UNCHANGED <<compareVars, flagVars, pipelineVars, apiVars, normVars, batchVars>>

\* the keys ingestion reads of a result file save_pipeline_results wrote
PipelineJson(schema) ==
    [ocr_text |-> InvoiceText,
     regex_extraction |-> _basic_regex_extraction(InvoiceText),
     ai_extraction |-> AiSuccess(schema)]

\* a schema without a vendor
NoVendorSchema ==
    [invoice_number |-> FieldValue(Str(<<"I","N","V","-","9">>), 90),
     invoice_date |-> FieldValue(Str(<<"2","0","2","4","-","0","2","-","0","1">>), 90),
     total_amount |-> FieldValue(Num(99), 90)]

\* files without a model section, with and without anomalies
Phase1Json ==
    [ocr_text |-> InvoiceText,
     regex_extraction |-> _basic_regex_extraction(InvoiceText)]
Phase1AnomalyJson ==
    [ocr_text |-> InvoiceText,
     regex_extraction |-> _basic_regex_extraction(InvoiceText),
     anomalies |-> <<[field |-> "total", score |-> 80], [reason |-> "no field"]>>]
BadAnomalyJson ==
    [ocr_text |-> InvoiceText,
     anomalies |-> <<[field |-> "total", score |-> 80], Str(ACME)>>]

JsonFiles ==
    {NotJson, PipelineJson(StoredNamesSchema), PipelineJson(NoVendorSchema),
     Phase1Json, Phase1AnomalyJson, BadAnomalyJson}

\* data_dir.glob(pattern): some files in some order
JsonListings == UNION {[1..n -> JsonFiles] : n \in 0..MaxJsonFiles}

InitIngest ==
    /\ pc = "ingest"
    /\ json_files \in JsonListings
    /\ commit \in BOOLEAN
    /\ json_i = 0
    /\ session = <<>>
    /\ invoice_info = EmptyDict
    /\ returned = <<>>
    /\ regex_extraction = EmptyDict
    /\ ai_extraction = EmptyDict
    /\ comparison = EmptyDict
    /\ field_i = 0
    /\ caller = "direct"
    /\ memo = EmptyDict
    /\ PHASE1_AVAILABLE = TRUE
    /\ AI_AVAILABLE = TRUE
    /\ ocr_result = EmptyDict
    /\ result = EmptyDict
    /\ db = <<>>
    /\ marked = <<>>
    /\ response = EmptyDict
    /\ request = EmptyDict
    /\ NormIdle
    /\ BatchIdle

NextIngest == IngestBegin \/ IngestSingleFile \/ IngestClose

SpecIngest == InitIngest /\ [][NextIngest]_vars

\* the two programs that store invoices: the API server and the ingestion
\* script
InitPersist == InitPipeline \/ InitIngest

NextPersist == Next \/ NextIngest

SpecPersist == InitPersist /\ [][NextPersist]_vars

-----------------------------------------------------------------------------
(* Properties of the reconciliation *)

\* the verdicts recorded so far by the running or finished reconciliation
Verdicts == DictGet(comparison, "field_comparisons", EmptyDict)
Returned == pc \in {"compare_return", "done"}

\* C1: a verdict has values_match = true only if both_present = true, both
\* input values are non-empty, and the two values are equal after trimming
\* whitespace and lower-casing.
C1_MatchOnlyIfBothPresentAndEqual ==
    \A f \in DOMAIN Verdicts :
        LET rv == regex_value_of(regex_extraction, f)
            av == ai_value_of(ai_extraction, f)
        IN  Verdicts[f].values_match =>
                /\ Verdicts[f].both_present
                /\ Truthy(rv) /\ Truthy(av)
                /\ Strip(Lower(rv.s)) = Strip(Lower(av.s))

\* a finished reconciliation with a field whose two values differ as
\* written and match after normalization
C1_Witness ==
    /\ pc = "done"
    /\ \E f \in DOMAIN Verdicts :
        /\ Verdicts[f].values_match
        /\ Verdicts[f].regex_value # Verdicts[f].ai_value

\* C2: the metrics of a finished reconciliation satisfy
\* 0 <= data_completeness <= 1 and 0 <= agreement_rate <= 1, no quotient has
\* a zero divisor, and agreement_rate is 0 when fields_with_data = 0.
C2_MetricsInRange ==
    Returned =>
        LET m == comparison.overall_metrics
        IN  /\ m.data_completeness.den > 0
            /\ m.agreement_rate.den > 0
            /\ 0 <= m.data_completeness.num
            /\ m.data_completeness.num <= m.data_completeness.den
            /\ 0 <= m.agreement_rate.num
            /\ m.agreement_rate.num <= m.agreement_rate.den
            /\ (m.fields_with_data = 0 => m.agreement_rate.num = 0)

\* a finished reconciliation in which no field has data
C2_Witness ==
    /\ pc = "done"
    /\ comparison.overall_metrics.fields_with_data = 0
    /\ comparison.overall_metrics.agreement_rate = [num |-> 0, den |-> 1]

\* C3: when the values of a field do not match and the two confidences are
\* equal, the model value is recommended (method "ai") if it is non-empty,
\* otherwise the pattern value (method "regex") if it is non-empty,
\* otherwise nothing is recommended; ACME at 0.8 against ACME CORP at 0.8
\* recommends ACME CORP from the model.
C3_TieBreak ==
    \A f \in DOMAIN Verdicts :
        LET v == Verdicts[f]
            rv == regex_value_of(regex_extraction, f)
            av == ai_value_of(ai_extraction, f)
        IN  /\ (~v.values_match /\ v.regex_confidence = v.ai_confidence) =>
                IF Truthy(av)
                THEN v.recommended_value = av /\ v.recommended_method = "ai"
                ELSE IF Truthy(rv)
                THEN v.recommended_value = rv /\ v.recommended_method = "regex"
                ELSE v.recommended_value = EmptyStr /\ v.recommended_method = ""
            /\ ( /\ rv = Str(ACME) /\ regex_conf_of(regex_extraction, f) = 80
                 /\ av = Str(AcmeCorp) /\ ai_conf_of(ai_extraction, f) = 80 ) =>
                v.recommended_value = Str(AcmeCorp) /\ v.recommended_method = "ai"

\* the tie of the example: ACME at 0.8 against ACME CORP at 0.8
C3_Witness ==
    /\ pc = "done"
    /\ \E f \in DOMAIN Verdicts :
        /\ Verdicts[f].regex_value = Str(ACME)
        /\ Verdicts[f].ai_value = Str(AcmeCorp)
        /\ Verdicts[f].regex_confidence = 80
        /\ Verdicts[f].ai_confidence = 80
        /\ Verdicts[f].recommended_method = "ai"

\* C4: a verdict's recommended_value is non-empty only if the pattern value
\* or the model value of the field is non-empty, and it is always one of
\* these two input values.
C4_RecommendedIsAnInput ==
    \A f \in DOMAIN Verdicts :
        LET rv == regex_value_of(regex_extraction, f)
            av == ai_value_of(ai_extraction, f)
        IN  /\ Truthy(Verdicts[f].recommended_value) => (Truthy(rv) \/ Truthy(av))
            /\ Verdicts[f].recommended_value \in {rv, av}

\* a finished reconciliation that recommends, for a matching field, one of
\* two values that differ as written
C4_Witness ==
    /\ pc = "done"
    /\ \E f \in DOMAIN Verdicts :
        /\ Verdicts[f].recommended_method = "either"
        /\ Verdicts[f].regex_value # Verdicts[f].ai_value
        /\ Truthy(Verdicts[f].recommended_value)

\* C10: for input mappings that lack some or all of the compared fields the
\* reconciliation does not raise, and returns exactly one verdict for each
\* of invoice_no, vendor, date, total and one metrics summary; a field that
\* a mapping lacks is compared as the empty value with confidence 0.
C10_TotalOnMissingFields ==
    /\ pc # "compare_raised"
    /\ Returned =>
        /\ DOMAIN comparison.field_comparisons = {"invoice_no", "vendor", "date", "total"}
        /\ DOMAIN comparison.overall_metrics =
               {"total_fields", "fields_with_data", "matching_fields",
                "data_completeness", "agreement_rate"}
        /\ comparison.overall_metrics.total_fields = 4
        /\ \A f \in DOMAIN comparison.field_comparisons :
            /\ f \notin DOMAIN regex_extraction =>
                /\ comparison.field_comparisons[f].regex_value = EmptyStr
                /\ comparison.field_comparisons[f].regex_confidence = 0
            /\ f \notin DOMAIN AiSchema(ai_extraction) =>
                /\ comparison.field_comparisons[f].ai_value = EmptyStr
                /\ comparison.field_comparisons[f].ai_confidence = 0

\* a finished reconciliation of a pattern mapping that lacks some fields
\* with a model result that has no schema at all
C10_Witness ==
    /\ pc = "done"
    /\ ai_extraction = EmptyDict
    /\ DOMAIN regex_extraction # {}
    /\ DOMAIN regex_extraction # FieldNames
    /\ DOMAIN comparison.field_comparisons = FieldNames

\* a step taken inside _compare_extractions leaves both arguments as they were
InputsKept ==
    pc \in {"compare", "compare_loop", "compare_return"} =>
        (regex_extraction' = regex_extraction /\ ai_extraction' = ai_extraction)

\* C9: a reconciliation of the same pair of inputs as the first one, whatever
\* was reconciled in between, returns the same verdicts, metrics and
\* recommendation as the first one did, and no step of a reconciliation
\* changes either input mapping.
C9_SameInputsSameResult ==
    /\ [](( /\ pc = "done"
            /\ memo # EmptyDict
            /\ memo.regex = regex_extraction
            /\ memo.ai = ai_extraction ) => comparison = memo.result)
    /\ [][InputsKept]_vars

\* a finished reconciliation of the same pair of inputs as the first one,
\* with a field that both methods report
C9_Witness ==
    /\ pc = "done"
    /\ memo # EmptyDict
    /\ memo.regex = regex_extraction
    /\ memo.ai = ai_extraction
    /\ DOMAIN comparison.field_comparisons = FieldNames
    /\ \E f \in FieldNames : comparison.field_comparisons[f].both_present

\* C11: for input mappings whose fields map to a FieldValue with any scalar
\* value (text or a number) or an empty one, the reconciliation does not
\* raise: it never leaves the loop over the fields by an exception.
C11_NoRaiseOnScalars == pc # "compare_raised"

-----------------------------------------------------------------------------
(* Properties of the pipeline and of the endpoint *)

PipelineReturned == pc \in {"pipeline_return", "respond"}
ModelFailed == "error" \in DOMAIN result.ai_extraction
OcrFailedUpstream == "error" \in DOMAIN ocr_result
ResultVerdicts == DictGet(result.comparison, "field_comparisons", EmptyDict)

\* C5: when the endpoint has handled the result of a document, every field
\* whose verdict has both_present = true and values_match = false has
\* exactly one anomaly stored for it, with score 0.8.
C5_OneAnomalyPerDisagreement ==
    pc = "respond" =>
        \A f \in DOMAIN ResultVerdicts :
            (ResultVerdicts[f].both_present /\ ~ResultVerdicts[f].values_match) =>
                /\ Cardinality({k \in DOMAIN marked : marked[k].field = f}) = 1
                /\ \A k \in DOMAIN marked : marked[k].field = f => marked[k].score = 80

\* C6: when the model extraction failed (modules unavailable, an error
\* indicator, or an exception), the returned result holds a comparison with
\* a verdict for every field, every recommended value is the value of the
\* pattern extraction (empty where the patterns found nothing), and
\* fields_with_data counts exactly the fields the patterns found.
C6_FallbackToPattern ==
    (PipelineReturned /\ ModelFailed) =>
        /\ DOMAIN ResultVerdicts = FieldNames
        /\ \A f \in FieldNames :
            ResultVerdicts[f].recommended_value = regex_value_of(result.regex_extraction, f)
        /\ result.comparison.overall_metrics.fields_with_data =
               Cardinality({f \in FieldNames :
                   Truthy(regex_value_of(result.regex_extraction, f))})

\* the model inference raised on a document whose text gives all four fields
C6_Witness ==
    /\ pc = "pipeline_return"
    /\ result.ai_extraction = AiFailure("AI extraction failed")
    /\ result.ocr_text = InvoiceText
    /\ result.comparison.overall_metrics.fields_with_data = 4

\* C7: when OCR or the model extraction failed, the returned result has a
\* non-empty errors list and holds the comparison metrics.
C7_ErrorsOnUpstreamFailure ==
    (pc = "pipeline_return" /\ (OcrFailedUpstream \/ ModelFailed)) =>
        /\ result.errors # <<>>
        /\ DictGet(result.comparison, "overall_metrics", EmptyDict) # EmptyDict

InvoiceNo2024 == <<"I","N","V","-","2","0","2","4","-","0","0","1">>
AcmeCorpLtd == <<"A","C","M","E"," ","C","O","R","P"," ","L","T","D">>
Date2024 == <<"2","0","2","4","-","0","1","-","1","5">>
Total1234 == <<"1","2","3","4",".","5","6">>

\* C8: for the text Invoice #INV-2024-001 / ACME CORP LTD / Date: 2024-01-15 /
\* Total: $1,234.56 the pattern extraction is INV-2024-001 at 0.8,
\* ACME CORP LTD at 0.6, 2024-01-15 at 0.7 and 1234.56 at 0.75; with an
\* empty model schema all four are recommended with method "regex",
\* data_completeness is 1 and agreement_rate is 0.
C8_InvoiceScenario ==
    (PipelineReturned /\ result.ocr_text = InvoiceText) =>
        /\ result.regex_extraction =
               [invoice_no |-> [value |-> Str(InvoiceNo2024), confidence |-> 80],
                vendor |-> [value |-> Str(AcmeCorpLtd), confidence |-> 60],
                date |-> [value |-> Str(Date2024), confidence |-> 70],
                total |-> [value |-> Str(Total1234), confidence |-> 75]]
        /\ AiSchema(result.ai_extraction) = EmptyDict =>
            /\ DOMAIN ResultVerdicts = FieldNames
            /\ ResultVerdicts["invoice_no"].recommended_value = Str(InvoiceNo2024)
            /\ ResultVerdicts["vendor"].recommended_value = Str(AcmeCorpLtd)
            /\ ResultVerdicts["date"].recommended_value = Str(Date2024)
            /\ ResultVerdicts["total"].recommended_value = Str(Total1234)
            /\ \A f \in FieldNames : ResultVerdicts[f].recommended_method = "regex"
            /\ result.comparison.overall_metrics.data_completeness = [num |-> 4, den |-> 4]
            /\ result.comparison.overall_metrics.agreement_rate.num = 0

\* the pipeline returned for that text with a model schema that is empty
C8_Witness ==
    /\ pc = "pipeline_return"
    /\ result.ocr_text = InvoiceText
    /\ result.ai_extraction = AiSuccess(EmptyDict)
    /\ result.comparison.overall_metrics.fields_with_data = 4

\* C12: when OCR failed inside the pipeline, the returned result has the
\* empty string as ocr_text and no pattern field.
C12_OcrFailureGivesEmptyText ==
    (PipelineReturned /\ OcrFailedUpstream) =>
        /\ result.ocr_text = <<>>
        /\ result.regex_extraction = EmptyDict

\* C13: process_invoice_with_ai never raises, whichever stage failed, and
\* the result it builds and returns always has an errors list.
C13_AlwaysReturnsRecord ==
    /\ pc # "pipeline_raised"
    /\ pc \in {"ocr", "ai", "compare", "compare_loop", "compare_raised",
               "compare_return", "pipeline_return", "respond"} =>
           "errors" \in DOMAIN result

\* the pipeline returned after the reconciliation raised on a numeric total
C13_Witness ==
    /\ pc = "pipeline_return"
    /\ result.errors # <<>>
    /\ result.ai_extraction = AiSuccess(NumericTotalSchema)

-----------------------------------------------------------------------------
(* Properties of the schema normalizer *)

\* C14: when the normalizer returns, every field of its output is a dict of
\* exactly a value and a confidence, and the confidence is in [0,1].
C14_UniformShape ==
    pc = "normalize_return" =>
        \A f \in DOMAIN structured :
            /\ DOMAIN structured[f] = {"value", "confidence"}
            /\ structured[f].confidence \in 0..100

\* C15: when the top-level input of the normalizer is not a mapping, the
\* normalizer raises and does not return a result.
C15_NonMappingRaises == ~IsDict(data) => pc # "normalize_return"

\* the names under which the normalizer emits fields, and the names the
\* endpoint reads from the model schema for the invoice row
NormalizerFieldNames == {field_mappings[i].name : i \in DOMAIN field_mappings}
StoredFieldNames ==
    {"vendor_name", "invoice_number", "invoice_date", "subtotal", "tax_amount",
     "total_amount", "currency"}

\* C16: the names of the fields the pattern extractor emitted, the names
\* under which the normalizer emits fields, the names the endpoint reads
\* from the model schema and the names the reconciliation looks up are the
\* same names.
C16_SameFieldNames ==
    PipelineReturned =>
        /\ DOMAIN result.regex_extraction \subseteq FieldNames
        /\ NormalizerFieldNames = FieldNames
        /\ StoredFieldNames \subseteq FieldNames

\* a step of the normalizer leaves its argument as it was
DataKept == pc \in {"normalize", "normalize_loop"} => data' = data

\* C20: no step of the normalizer changes the raw mapping it was given,
\* nested dicts included.
C20_InputUnchanged == [][DataKept]_vars

-----------------------------------------------------------------------------
(* Properties of the API *)

\* the X-API-KEY header is missing or differs from the expected key
KeyRejected(headers) ==
    "X_API_KEY" \notin DOMAIN headers \/ headers.X_API_KEY # expected_key

\* a request to an endpoint other than docs with a rejected key is answered
\* 401 and nothing else happens
RejectedWith401 ==
    (pc = "idle" /\ request'.endpoint # "docs" /\ KeyRejected(request'.headers)) =>
        /\ response' = [status |-> 401, error |-> "Invalid API key"]
        /\ pc' = "idle"
        /\ UNCHANGED <<db, marked, pipelineVars, compareVars>>

\* C17: every request to an endpoint other than docs whose API key is
\* missing or wrong is answered 401, whatever its file part is, and for it
\* the pipeline is not started and the database is not changed.
C17_KeyCheckedFirst == [][RejectedWith401]_vars

\* extract_invoice answered 401 to a request that also had no file part
C17_Witness ==
    /\ request # EmptyDict
    /\ request.endpoint = "extract_invoice"
    /\ KeyRejected(request.headers)
    /\ "file" \notin DOMAIN request.files
    /\ DictGet(response, "status", 0) = 401

\* the file part is missing, has an empty filename, or has the extension pdf
BadUpload(files) ==
    \/ "file" \notin DOMAIN files
    \/ files.file.filename = <<>>
    \/ files.file.filename = PdfName

\* such a request with the expected key is answered 400 with an error and
\* the pipeline is not started
RejectedWith400 ==
    ( /\ pc = "idle"
      /\ request'.endpoint = "extract_invoice"
      /\ ~KeyRejected(request'.headers)
      /\ BadUpload(request'.files) ) =>
        /\ DictGet(response', "status", 0) = 400
        /\ "error" \in DOMAIN response'
        /\ pc' = "idle"
        /\ UNCHANGED <<pipelineVars, compareVars>>

\* C18: a POST to extract_invoice with a valid API key and no file part, an
\* empty filename or a disallowed extension is answered 400 with an error
\* field, and the pipeline is not invoked for it.
C18_BadUploadRejected == [][RejectedWith400]_vars

\* extract_invoice answered 400 to a valid key and a file named a.pdf
C18_Witness ==
    /\ request # EmptyDict
    /\ request.endpoint = "extract_invoice"
    /\ ~KeyRejected(request.headers)
    /\ "file" \in DOMAIN request.files
    /\ request.files.file.filename = PdfName
    /\ DictGet(response, "status", 0) = 400
    /\ pc = "idle"

-----------------------------------------------------------------------------
(* Properties of the batch run *)

\* C19: when the batch run over a directory has ended, it has returned, with
\* exactly one result per image file of the directory, the k-th result being
\* that of the k-th image; a failure of saving a result does not end the run
\* without the results.
C19_OneResultPerImage ==
    pc \in {"batch_done", "batch_raised"} =>
        /\ pc = "batch_done"
        /\ Len(results) = Len(ImagesOf(directory.files))
        /\ \A k \in DOMAIN results :
               results[k].invoice_path = ImagesOf(directory.files)[k]

-----------------------------------------------------------------------------
(* Properties of the recommendation of _compare_extractions *)

\* C21: when both values of a field are present and match, the verdict has
\* recommended_method "either" and recommends the common value, whatever the
\* two confidences are.
C21_MatchRecommendsEither ==
    \A f \in DOMAIN Verdicts :
        LET rv == regex_value_of(regex_extraction, f)
            av == ai_value_of(ai_extraction, f)
        IN  (Truthy(rv) /\ Truthy(av) /\ NormalizedEqual(rv.s, av.s)) =>
                /\ Verdicts[f].recommended_method = "either"
                /\ Verdicts[f].recommended_value = rv
                /\ NormalizedEqual(Verdicts[f].recommended_value.s, av.s)

\* a matching field whose model confidence is the higher one
C21_Witness ==
    /\ pc = "done"
    /\ \E f \in DOMAIN Verdicts :
        /\ Verdicts[f].both_present
        /\ Verdicts[f].values_match
        /\ Verdicts[f].ai_confidence > Verdicts[f].regex_confidence
        /\ Verdicts[f].recommended_method = "either"

\* C22: when a field is not both present and matching and the confidences
\* differ, the verdict recommends the value and the method of the side with
\* the strictly higher confidence.
C22_HigherConfidenceWins ==
    \A f \in DOMAIN Verdicts :
        LET rv == regex_value_of(regex_extraction, f)
            av == ai_value_of(ai_extraction, f)
            rc == regex_conf_of(regex_extraction, f)
            ac == ai_conf_of(ai_extraction, f)
            v == Verdicts[f]
        IN  (~(v.both_present /\ v.values_match) /\ rc # ac) =>
                IF ac > rc
                THEN v.recommended_value = av /\ v.recommended_method = "ai"
                ELSE v.recommended_value = rv /\ v.recommended_method = "regex"

\* two different values, the pattern one with the higher confidence
C22_Witness ==
    /\ pc = "done"
    /\ \E f \in DOMAIN Verdicts :
        /\ Verdicts[f].both_present
        /\ ~Verdicts[f].values_match
        /\ Verdicts[f].regex_confidence > Verdicts[f].ai_confidence
        /\ Verdicts[f].recommended_method = "regex"
        /\ Verdicts[f].recommended_value = Verdicts[f].regex_value

\* C23: a returned comparison holds exactly one recommendation: the
\* high-agreement text if agreement_rate > 0.8, otherwise the
\* low-completeness text if data_completeness < 0.5, otherwise the
\* moderate text; with agreement_rate > 0.8 and data_completeness < 0.5 it
\* is the high-agreement text.
C23_OneRecommendation ==
    Returned =>
        LET m == comparison.overall_metrics
            high == QGreater(m.agreement_rate, 8, 10)
            low == QLess(m.data_completeness, 5, 10)
        IN  /\ Len(comparison.recommendations) = 1
            /\ high => comparison.recommendations[1] = HighAgreement
            /\ (~high /\ low) => comparison.recommendations[1] = LowCompleteness
            /\ (~high /\ ~low) => comparison.recommendations[1] = ModerateAgreement

\* one field with data, and it matches: agreement 1, completeness 1/4
C23_Witness ==
    /\ pc = "done"
    /\ QGreater(comparison.overall_metrics.agreement_rate, 8, 10)
    /\ QLess(comparison.overall_metrics.data_completeness, 5, 10)
    /\ comparison.recommendations = <<HighAgreement>>

\* C27: if at least one side has a non-empty value for a field, the
\* recommended value is non-empty; if exactly one side has a value, that
\* value is the recommended one whatever the confidences are.
C27_ValueNeverLost ==
    \A f \in DOMAIN Verdicts :
        LET rv == regex_value_of(regex_extraction, f)
            av == ai_value_of(ai_extraction, f)
            v == Verdicts[f]
        IN  /\ (Truthy(rv) \/ Truthy(av)) => Truthy(v.recommended_value)
            /\ (Truthy(rv) /\ ~Truthy(av)) => v.recommended_value = rv
            /\ (Truthy(av) /\ ~Truthy(rv)) => v.recommended_value = av

-----------------------------------------------------------------------------
(* Properties of the pattern extractor *)

\* the pattern list of a field, each pattern as its search over the text
PatternSearches(field, s) ==
    CASE field = "invoice_no" -> InvSearches(s)
      [] field = "date" -> DateSearches(s)
      [] field = "total" -> TotalSearches(s)

\* the value as the extractor writes a capture group: the invoice number in
\* upper case, the total without commas
GroupWritten(field, group) ==
    CASE field = "invoice_no" -> Upper(group)
      [] field = "date" -> group
      [] field = "total" -> RemoveCommas(group)

PatternConfidence == [invoice_no |-> 80, date |-> 70, total |-> 75]

\* C24: for invoice_no, date and total the value is the capture group of the
\* first pattern of the field's list that matches the text, later patterns
\* are not consulted, and the confidence is the field's fixed one (0.8, 0.7,
\* 0.75); a field with no matching pattern, and every field of an empty
\* text, is {value: '', confidence: 0.0}.
C24_FirstPatternWins ==
    (ocr_result # EmptyDict /\ ~OcrFailedUpstream) =>
        LET text == ocr_result.ocr_text
            lower == Lower(text)
            out == ocr_result.regex_extraction
        IN  \A f \in {"invoice_no", "date", "total"} :
                LET searches == PatternSearches(f, lower)
                    first == {k \in DOMAIN searches :
                                 /\ searches[k].ok
                                 /\ \A j \in 1..(k - 1) : ~searches[j].ok}
                IN  IF text = <<>> \/ first = {}
                    THEN out[f] = FieldValue(EmptyStr, 0)
                    ELSE \A k \in first :
                            out[f] = FieldValue(
                                Str(GroupWritten(f, GroupText(lower, searches[k]))),
                                PatternConfidence[f])

\* a text on which the first and the second invoice-number pattern match
\* with different groups, and the first one's group is the value
C24_Witness ==
    /\ pc = "pipeline_return"
    /\ result.ocr_text = InvoiceText
    /\ LET searches == InvSearches(Lower(InvoiceText))
       IN  /\ searches[1].ok
           /\ searches[2].ok
           /\ GroupText(Lower(InvoiceText), searches[1])
                # GroupText(Lower(InvoiceText), searches[2])
           /\ result.regex_extraction.invoice_no
                = FieldValue(Str(Upper(GroupText(Lower(InvoiceText), searches[1]))), 80)
    /\ result.regex_extraction.total.confidence = 75

-----------------------------------------------------------------------------
(* Properties of the schema normalizer *)

\* the value of an entry after the type validation of a field: text fields
\* get str() of a value that is neither text nor None
ValidatedValue(v, fm) ==
    IF fm.name = "line_items" \/ fm.type # <<"str">> THEN v
    ELSE IF IsDict(v) THEN v
    ELSE IF v.t \in {"none", "str"} THEN v
    ELSE Str(StrOf(v))

\* one iteration of the loop that stores a field, seen from the raw mapping
StepWrapsOrPassesThrough ==
    ( /\ pc = "normalize_loop"
      /\ norm_i <= Len(field_mappings)
      /\ norm_i' = norm_i + 1
      /\ IsDict(data)
      /\ field_mappings[norm_i].name \in DOMAIN data ) =>
        LET fm == field_mappings[norm_i]
            raw == data[fm.name]
            out == DictGet(structured', fm.name, EmptyDict)
        IN  IF IsDict(raw) /\ "value" \in DOMAIN raw
            THEN out = [raw EXCEPT !.value = ValidatedValue(@, fm)]
            ELSE out = [value |-> ValidatedValue(raw, fm),
                        confidence |-> IF fm.conf \in DOMAIN data
                                       THEN HundredthsOf(data[fm.conf])
                                       ELSE 80]

\* C25: a raw field value that is already a {value, ...} structure is passed
\* through; any other raw value is wrapped as {value, confidence}, with the
\* confidence of the sibling '<field>_confidence' entry if the raw mapping
\* has one and 0.8 otherwise.
C25_WrapOrPassThrough == [][StepWrapsOrPassesThrough]_vars

\* a returned mapping with a value wrapped with its sibling confidence, one
\* wrapped with the default, and none passed through
C25_Witness ==
    /\ pc = "normalize_return"
    /\ IsDict(data)
    /\ DictGet(data, "vendor_name", PyNone) = Str(ACME)
    /\ DictGet(data, "vendor_name_confidence", PyNone) = Num(90)
    /\ DictGet(structured, "vendor_name", EmptyDict)
            = [value |-> Str(ACME), confidence |-> 90]
    /\ DictGet(data, "total_amount", PyNone) = Num(1234)
    /\ DictGet(structured, "total_amount", EmptyDict)
            = [value |-> Num(1234), confidence |-> 80]

\* the raw value of a field of a raw mapping
RawValue(d, fm) ==
    IF IsDict(d[fm.name]) /\ "value" \in DOMAIN d[fm.name]
    THEN d[fm.name].value ELSE d[fm.name]

\* float() is the coercion of the field and rejects its raw value
CoercionFails(d, fm) ==
    /\ fm.type = <<"int", "float">>
    /\ ~IsInstance(RawValue(d, fm), fm.type)
    /\ FloatRaises(RawValue(d, fm))
    /\ RawValue(d, fm) # PyNone

\* C26: the normalizer drops no field: every field of the schema that the
\* raw mapping has is in the output; a value whose type does not fit and
\* whose coercion fails is kept as it was, and the remaining fields are
\* still normalized (a failed coercion does not end the normalization).
C26_NoFieldDropped ==
    /\ (pc = "normalize_return" /\ IsDict(data)) =>
        \A k \in DOMAIN field_mappings :
            LET fm == field_mappings[k]
            IN  fm.name \in DOMAIN data =>
                    /\ fm.name \in DOMAIN structured
                    /\ "value" \in DOMAIN structured[fm.name]
                    /\ CoercionFails(data, fm) =>
                           structured[fm.name].value = RawValue(data, fm)
    /\ (pc = "normalize_raised" /\ IsDict(data)) =>
           ~CoercionFails(data, field_mappings[norm_i])

\* a returned mapping whose total is text that is no number: the text is
\* kept and the field after it is normalized
C26_Witness ==
    /\ pc = "normalize_return"
    /\ IsDict(data)
    /\ DictGet(data, "total_amount", PyNone) = Str(NotANumber)
    /\ DictGet(structured, "total_amount", EmptyDict)
            = [value |-> Str(NotANumber), confidence |-> 80]
    /\ "line_items" \in DOMAIN data
    /\ "line_items" \in DOMAIN structured

-----------------------------------------------------------------------------
(* Properties of the persistence of results *)

AllMethods == {"OCR", "REGEX", "LAYOUTLM"}

\* C28: when the result extract_invoice handles has no errors, the invoice
\* row and its OCR, pattern and model extractions are committed and the
\* response carries the id of the new invoice; likewise ingest_single_file
\* with commit = True stores a JSON file that has an ai_extraction section.
C28_StoredWhenNoErrors ==
    /\ (pc = "respond" /\ result.errors = <<>>) =>
          /\ "invoice_id" \in DOMAIN result
          /\ \E k \in DOMAIN db :
                 /\ db[k].id = DictGet(result, "invoice_id", 0)
                 /\ db[k].extractions = AllMethods
    /\ \A i \in DOMAIN returned :
          ( /\ commit
            /\ IsDict(json_files[i])
            /\ AllMethods \subseteq IngestMethods(json_files[i]) ) =>
              /\ returned[i]
              /\ \E k \in DOMAIN db :
                     db[k].file = i /\ db[k].extractions = AllMethods

\* one step of either program, seen from the committed rows
StoreIsAllOrNothing ==
    /\ pc = "pipeline_return" =>
          \/ db' = db /\ "invoice_id" \notin DOMAIN result'
          \/ /\ db' = Append(db, InvoiceRow(Len(db) + 1, result))
             /\ DictGet(result', "invoice_id", 0) = Len(db) + 1
    /\ pc = "respond" =>
          response' = [status |-> 200,
                       invoice_id |-> DictGet(result, "invoice_id", 0),
                       errors |-> result.errors]
    /\ (pc = "ingest_loop" /\ json_i <= Len(json_files)) =>
          \/ db' = db /\ (~commit \/ ~returned'[json_i])
          \/ /\ commit
             /\ returned'[json_i]
             /\ Len(db') = Len(db) + 1
             /\ SubSeq(db', 1, Len(db)) = db
             /\ db'[Len(db')].file = json_i
             /\ db'[Len(db')].extractions = IngestMethods(json_files[json_i])
             /\ Len(db'[Len(db')].anomalies)
                    = Len(DictGet(json_files[json_i], "anomalies", <<>>))
    /\ pc \notin {"pipeline_return", "ingest_loop"} => db' = db

IngestFieldNames ==
    {<<"invoice_no", "invoice_number">>, <<"date", "invoice_date">>,
     <<"total", "total_amount">>}

\* C30: in extract_invoice_data the pattern extraction only fills what the
\* model schema left empty: a non-empty invoice number, date or total of
\* the schema is never replaced, and a field only the pattern extraction
\* produced has that value in the invoice record.
C30_FallbackFillsOnlyEmpty ==
    (pc \in {"ingest_loop", "ingest_done"} /\ json_i > 1
        /\ IsDict(json_files[json_i - 1])) =>
        LET json_data == json_files[json_i - 1]
            schema == AiSchema(DictGet(json_data, "ai_extraction", EmptyDict))
            regex == DictGet(json_data, "regex_extraction", EmptyDict)
        IN  \A names \in IngestFieldNames :
                LET ai_value == SchemaValue(schema, names[2])
                    regex_value == regex_value_of(regex, names[1])
                    stored == DictGet(invoice_info, names[1], PyNone)
                IN  /\ Truthy(ai_value) => stored = ai_value
                    /\ (~Truthy(ai_value) /\ Truthy(regex_value)) =>
                           stored = regex_value

====
